---- MODULE Spec2Model ----
(***************************************************************************)
(* A model of the Z-Machine interpreter of bcorrigan/zmachine:              *)
(* memory.rs (story memory, word stack, call frames), zmachine.rs (State,  *)
(* branch, operand decoding), instruction.rs (the opcode handlers),        *)
(* object.rs (the object tree) and zscii.rs (the text decoder).            *)
(*                                                                         *)
(* The story image and the word stack are kept sparse: an address or a     *)
(* stack index that is not in the DOMAIN holds 0, as in the zero-filled    *)
(* images the tests build (vec![0u8; 4096]) and in [0u16; 4096].           *)
(***************************************************************************)
EXTENDS Integers, Sequences, FiniteSets, TLC

VARIABLES
    mem,      \* Memory.mem: the story image, address -> byte (sparse)
    stack,    \* Memory.stack.stack: index -> word (sparse)
    sp,       \* Memory.stack.sp
    frames,   \* State.frame and its prev chain; the last element is State.frame
    running,  \* State.running
    version,  \* State.version
    out,      \* what the screen has been asked to print, a sequence of characters
    last,     \* the handler (or function) that ran last, its inputs and its result
    calls     \* per frame above the main one: what the caller looked like at its CALL

vars == <<mem, stack, sp, frames, running, version, out, last, calls>>

(***************************************************************************)
(* Bounds of the model and constants of the program.                       *)
(***************************************************************************)
MaxDepth == 2          \* frames on the call chain, the main frame included
MaxEval == 1           \* values a frame may push
MaxCode == 1           \* instruction-stream bytes a frame may consume
MaxLocals == 1         \* locals the routine of a story declares
NumObjects == 3        \* objects of the object table that the operations name

STACK_LEN == 4096      \* Stack.stack: [u16; 4096]
MAIN_BP == 17          \* StackFrame::main: bp
FRAME_LOCALS == 16     \* StackFrame::push: stack.sp += 16

Byte == 0..255
None == <<>>           \* Option<u8>::None
Some(b) == <<b>>       \* Option<u8>::Some(b)

U8(x) == x % 256
U16(x) == x % 65536
\* u32 values (the PC): no address of the model comes near 2^31, so a u32
\* never wraps here and is the number itself
U32(x) == x
Hi(v) == (v \div 256) % 256
Lo(v) == v % 256
\* bit n (0 = lowest) of x
Bit(x, n) == (x \div (2 ^ n)) % 2

(***************************************************************************)
(* Memory: byte and word access (memory.rs).  An index at or past the end  *)
(* of the image is a Rust index panic; the handlers below are only applied *)
(* to addresses inside the image.                                          *)
(***************************************************************************)
MemAt(m, a) == IF a \in DOMAIN m THEN m[a] ELSE 0

MemSet(m, a, b) == [x \in (DOMAIN m) \cup {a} |-> IF x = a THEN b ELSE m[x]]

read_u8(m, addr) == MemAt(m, addr)

read_u16(m, addr) == MemAt(m, addr) * 256 + MemAt(m, U16(addr + 1))

write_u8(m, addr, val) == MemSet(m, addr, val)

\* self[addr] = vals[0]; self[addr] = vals[1];  both assignments go to addr
write_u16(m, addr, val) == MemSet(MemSet(m, addr, Hi(val)), addr, Lo(val))

zmachine_version(m) == read_u8(m, 0)
initial_pc(m) == read_u16(m, 6)
object_table(m) == read_u16(m, 10)
global_variables(m) == read_u16(m, 12)
static_memory(m) == read_u16(m, 14)
abbreviations_table(m) == read_u16(m, 24)

\* self.read_u16(self.global_variables() + (id * 2) as u16): id * 2 is a u8
\* product, so a release build wraps it to 8 bits (a debug build panics for
\* id >= 128; GlobalIds below stays under that).
read_global(m, id) == read_u16(m, U16(global_variables(m) + U8(id * 2)))

(***************************************************************************)
(* The machine as one record, so that a handler is a function from the     *)
(* state it is given to the state it leaves and its Result.                *)
(***************************************************************************)
Cur == [mem |-> mem, stack |-> stack, sp |-> sp, frames |-> frames,
        running |-> running, version |-> version, out |-> out]

Becomes(s) ==
    /\ mem' = s.mem
    /\ stack' = s.stack
    /\ sp' = s.sp
    /\ frames' = s.frames
    /\ running' = s.running
    /\ version' = s.version
    /\ out' = s.out

\* Result<T, Error>: res is "ok" or the error's message; val is the T
Ok(s, v) == [st |-> s, res |-> "ok", val |-> v]
Err(s, msg) == [st |-> s, res |-> msg, val |-> 0]

frame(s) == s.frames[Len(s.frames)]
SetFrame(s, f) == [s EXCEPT !.frames = [@ EXCEPT ![Len(@)] = f]]

(***************************************************************************)
(* Stack and StackFrame (memory.rs).                                       *)
(***************************************************************************)
StackAt(stk, i) == IF i \in DOMAIN stk THEN stk[i] ELSE 0

StackSet(stk, i, v) == [x \in (DOMAIN stk) \cup {i} |-> IF x = i THEN v ELSE stk[x]]

\* StackFrame::main.  return_store_var is the field Call and Ret use
\* (instruction.rs:881, 950); the main frame has none.
StackFrame_main(m) == [pc |-> initial_pc(m), bp |-> MAIN_BP, return_store_var |-> None]

\* StackFrame::push: the new frame is put on top of the frame it was called on
StackFrame_push(s, pc, store_var) ==
    LET nsp == U16(s.sp + FRAME_LOCALS)
    IN  [s EXCEPT !.sp = nsp,
                  !.frames = Append(@, [pc |-> pc, bp |-> nsp, return_store_var |-> store_var])]

\* StackFrame::pop applied to State.frame, as Ret does: Ret first replaces
\* State.frame by a fresh main frame, and puts prev back only when pop succeeds.
StackFrame_pop(s) ==
    LET f == frame(s)
        top == f.bp - FRAME_LOCALS
        zeroed == [x \in (DOMAIN s.stack) \cup (s.sp .. top) |->
                      IF x \in s.sp .. top THEN 0 ELSE s.stack[x]]
        s1 == [s EXCEPT !.stack = zeroed, !.sp = top]
    IN  IF Len(s.frames) > 1
        THEN Ok([s1 EXCEPT !.frames = SubSeq(@, 1, Len(@) - 1)], 0)
        ELSE Err([s1 EXCEPT !.frames = <<StackFrame_main(s.mem)>>],
                 "Attempted to return from main routine")

read_local(s, i) == StackAt(s.stack, frame(s).bp - i)

write_local(s, i, val) == [s EXCEPT !.stack = StackSet(@, frame(s).bp - i, val)]

\* Stack::pop with the test sp < bp in place of sp <= bp
Stack_pop_strict(s) ==
    IF s.sp < frame(s).bp
    THEN Err(s, "Stack underflow")
    ELSE Ok([s EXCEPT !.sp = s.sp - 1], StackAt(s.stack, s.sp - 1))

\* Stack::pop
Stack_pop(s) ==
    IF s.sp <= frame(s).bp
    THEN Err(s, "Stack underflow")
    ELSE Ok([s EXCEPT !.sp = s.sp - 1], StackAt(s.stack, s.sp - 1))

\* Stack::push.  new_sp = 4096 passes the length test and then indexes past
\* the array: a panic.
Stack_push(s, val) ==
    LET new_sp == U16(s.sp + 1)
        s1 == [s EXCEPT !.sp = new_sp]
    IN  IF new_sp > STACK_LEN THEN Err(s1, "Stack Overflow")
        ELSE IF new_sp >= STACK_LEN THEN Err(s1, "panic")
        ELSE Ok([s1 EXCEPT !.stack = StackSet(@, new_sp, val)], 0)

\* Memory::load
load(s, id) ==
    IF id = 0 THEN Stack_pop(s)
    ELSE IF id <= 15 THEN Ok(s, read_local(s, id))
    ELSE Ok(s, read_global(s.mem, id))

\* Memory::store, which memory.rs does not hold.  From the variable namespace:
\* 0x00 pushes, 0x01..0x0F are the frame's locals, 0x10..0xFF are globals
\* stored as words at globals_base + 2 * (i - 0x10).
store(s, id, val) ==
    IF id = 0 THEN Stack_push(s, val)
    ELSE IF id <= 15 THEN Ok(write_local(s, id, val), 0)
    ELSE Ok([s EXCEPT !.mem = write_u16(@, U16(global_variables(s.mem) + 2 * (id - 16)), val)], 0)

(***************************************************************************)
(* State (zmachine.rs).                                                    *)
(***************************************************************************)
\* State::next_u8: the byte at pc (the address cut to 16 bits), pc + 1
next_u8(s) ==
    Ok(SetFrame(s, [frame(s) EXCEPT !.pc = U32(@ + 1)]), read_u8(s.mem, U16(frame(s).pc)))

\* State::next_u16
next_u16(s) ==
    Ok(SetFrame(s, [frame(s) EXCEPT !.pc = U32(@ + 2)]), read_u16(s.mem, U16(frame(s).pc)))

read_variable(s, id) == load(s, id)

store_variable(s, id, val) == store(s, id, val)

\* State::branch with the sign extension left out: the 14-bit value as it is
branch_unsigned(s, condition) ==
    LET n1 == next_u8(s)
        n2 == next_u8(n1.st)
        short == Bit(n1.val, 6) = 1
        offset == IF short THEN n1.val % 64 ELSE (n1.val % 64) * 256 + n2.val
        after == IF short THEN n1.st ELSE n2.st
    IN  IF (Bit(n1.val, 7) = 1) = condition
        THEN IF offset = 0 \/ offset = 1 THEN after
             ELSE SetFrame(after, [frame(after) EXCEPT !.pc = U32(@ + offset - 2)])
        ELSE after

\* State::branch.  offset is the i16; offsets 0 and 1 only write a line to
\* the standard output and leave the PC after the branch bytes.
branch(s, condition) ==
    LET n1 == next_u8(s)
        offset_byte_1 == n1.val
        branch_on_true == Bit(offset_byte_1, 7) = 1
        short == Bit(offset_byte_1, 6) = 1
        n2 == next_u8(n1.st)
        val == (offset_byte_1 % 64) * 256 + n2.val
        offset == IF short THEN offset_byte_1 % 64
                  ELSE IF Bit(val, 13) = 1 THEN U16(val + 49152) - 65536
                  ELSE val
        after == IF short THEN n1.st ELSE n2.st
    IN  IF branch_on_true = condition
        THEN IF offset = 0 \/ offset = 1 THEN after
             ELSE SetFrame(after, [frame(after) EXCEPT !.pc = U32(@ + offset - 2)])
        ELSE IF ~short THEN n2.st ELSE n1.st

(***************************************************************************)
(* Handlers (instruction.rs).  operands is the Vec<u16> execute is given.  *)
(***************************************************************************)
\* Store::execute
Store_execute(s, operands) == store_variable(s, U8(operands[1]), operands[2])

\* Load::execute
Load_execute(s, operands) ==
    LET r == read_variable(s, U8(operands[1]))
        n == next_u8(r.st)
    IN  IF r.res # "ok" THEN r
        ELSE [store_variable(n.st, n.val, r.val) EXCEPT !.val = r.val]

\* Push::execute
Push_execute(s, operands) == store_variable(s, 0, operands[1])

\* Pull::execute
Pull_execute(s, operands) ==
    LET r == read_variable(s, 0)
    IN  IF r.res # "ok" THEN r
        ELSE [store_variable(r.st, U8(operands[1]), r.val) EXCEPT !.val = r.val]

\* StoreW::execute
StoreW_execute(s, operands) ==
    Ok([s EXCEPT !.mem = write_u16(@, U16(operands[1] + U16(operands[2] * 2)), operands[3])], 0)

\* StoreB::execute
StoreB_execute(s, operands) ==
    Ok([s EXCEPT !.mem = write_u8(@, U16(operands[1] + operands[2]), U8(operands[3]))], 0)

\* LoadW::execute
LoadW_execute(s, operands) ==
    LET value == read_u16(s.mem, U16(operands[1] + U16(operands[2] * 2)))
        n == next_u8(s)
    IN  [store_variable(n.st, n.val, value) EXCEPT !.val = value]

\* Call::execute.  operands[1] is the packed routine address, the rest are the
\* arguments.  The two loops over the locals write distinct stack words, so
\* they are one update here: local i gets argument i when there is one, and
\* otherwise its default word (V1-V4) or 0 (V5+).
Call_execute(s, operands) ==
    LET routine_addr == operands[1]
        args == SubSeq(operands, 2, Len(operands))
        packed_addr == U32(routine_addr * 2)
        num_locals == read_u8(s.mem, U16(packed_addr))
        n == next_u8(s)
        store_var == n.val
        pushed == StackFrame_push(n.st, packed_addr + 1, Some(store_var))
        bp == frame(pushed).bp
        default(i) == IF s.version <= 4
                      THEN read_u16(s.mem, U16(packed_addr + 1 + 2 * (i - 1)))
                      ELSE 0
        local(i) == IF i <= Len(args) THEN args[i] ELSE default(i)
        new_pc == IF s.version <= 4 THEN packed_addr + 1 + 2 * num_locals
                  ELSE packed_addr + 1
        written == [x \in (DOMAIN pushed.stack) \cup {bp - i : i \in 1..num_locals} |->
                       IF \E i \in 1..num_locals : x = bp - i
                       THEN local(bp - x) ELSE pushed.stack[x]]
    IN  IF routine_addr = 0
        THEN store_variable(n.st, n.val, 0)
        ELSE Ok(SetFrame([pushed EXCEPT !.stack = written],
                         [frame(pushed) EXCEPT !.pc = new_pc]), 0)

\* Ret::execute.  State.frame is replaced by a fresh main frame before the pop,
\* and stays that when the pop fails (StackFrame_pop).
Ret_execute(s, operands) ==
    LET value == operands[1]
        store_var == frame(s).return_store_var
        popped == StackFrame_pop(s)
    IN  IF popped.res # "ok" THEN popped
        ELSE IF store_var # None THEN store_variable(popped.st, store_var[1], value)
        ELSE Ok(popped.st, 0)

\* `as i16`: the word read as a two's-complement number
I16(x) == IF x >= 32768 THEN x - 65536 ELSE x

\* i16 division and remainder, which round towards zero
TruncDiv(a, b) ==
    LET abs(x) == IF x < 0 THEN 0 - x ELSE x
        q == abs(a) \div abs(b)
    IN  IF (a < 0) = (b < 0) THEN q ELSE 0 - q

TruncRem(a, b) == a - b * TruncDiv(a, b)

\* Add::execute
Add_execute(s, operands) ==
    LET a == I16(operands[1])
        b == I16(operands[2])
        result == I16(U16(a + b))
        n == next_u8(s)
    IN  store_variable(n.st, n.val, U16(result))

\* Sub::execute
Sub_execute(s, operands) ==
    LET a == I16(operands[1])
        b == I16(operands[2])
        result == I16(U16(a - b))
        n == next_u8(s)
    IN  store_variable(n.st, n.val, U16(result))

\* Mul::execute
Mul_execute(s, operands) ==
    LET a == I16(operands[1])
        b == I16(operands[2])
        result == I16(U16(a * b))
        n == next_u8(s)
    IN  store_variable(n.st, n.val, U16(result))

\* Div::execute without the test of the divisor, the quotient taken as 0 then
Div_unchecked(s, operands) ==
    LET a == I16(operands[1])
        b == I16(operands[2])
        result == IF b = 0 THEN 0 ELSE I16(U16(TruncDiv(a, b)))
        n == next_u8(s)
    IN  store_variable(n.st, n.val, U16(result))

\* Div::execute
Div_execute(s, operands) ==
    LET a == I16(operands[1])
        b == I16(operands[2])
        result == I16(U16(TruncDiv(a, b)))
        n == next_u8(s)
    IN  IF b = 0 THEN Err(s, "Division by zero")
        ELSE store_variable(n.st, n.val, U16(result))

\* Mod::execute
Mod_execute(s, operands) ==
    LET a == I16(operands[1])
        b == I16(operands[2])
        result == I16(U16(TruncRem(a, b)))
        n == next_u8(s)
    IN  IF b = 0 THEN Err(s, "Division by zero")
        ELSE store_variable(n.st, n.val, U16(result))

\* Je::execute
Je_execute(s, operands) ==
    Ok(branch(s, \E i \in 2..Len(operands) : operands[i] = operands[1]), 0)

\* Jz::execute
Jz_execute(s, operands) == Ok(branch(s, operands[1] = 0), 0)

\* RTrue::execute, RFalse::execute
RTrue_execute(s, operands) == Ret_execute(s, <<1>>)
RFalse_execute(s, operands) == Ret_execute(s, <<0>>)

\* RetPopped::execute
RetPopped_execute(s, operands) ==
    LET r == load(s, 0)
    IN  IF r.res # "ok" THEN r ELSE Ret_execute(r.st, <<r.val>>)

\* Restart::execute: the memory it builds is dropped, and State.frame becomes
\* a fresh main frame made from the memory as it is now
Restart_execute(s, operands) ==
    Ok([s EXCEPT !.frames = <<StackFrame_main(s.mem)>>], 0)

\* Quit::execute
Quit_execute(s, operands) == Ok([s EXCEPT !.running = FALSE], 0)

(***************************************************************************)
(* Object (object.rs).  wide is Object::<T>::WIDE: T = u16 (V4+) or, when  *)
(* FALSE, T = u8 (V1-V3).  An operation that loops for ever is reported as *)
(* hang, with the memory as the loop found it.                             *)
(***************************************************************************)
PARENT(wide) == IF wide THEN 6 ELSE 4
SIBLING(wide) == IF wide THEN 8 ELSE 5
CHILD(wide) == IF wide THEN 10 ELSE 6
PROPS(wide) == IF wide THEN 12 ELSE 7
SIZE(wide) == IF wide THEN 14 ELSE 9
PROPMAX(wide) == IF wide THEN 63 ELSE 31

object_table_ptr(wide, m) == U16(object_table(m) + PROPMAX(wide) * 2 - SIZE(wide))

object_ptr(wide, m, obj) == U16(object_table_ptr(wide, m) + U16(obj * SIZE(wide)))

\* ReadObject::read_obj: a byte for u8, a word for u16
read_obj(wide, m, addr) == IF wide THEN read_u16(m, addr) ELSE read_u8(m, addr)

sibling(wide, m, obj) == read_obj(wide, m, U16(object_ptr(wide, m, obj) + SIBLING(wide)))

parent(wide, m, obj) == read_obj(wide, m, U16(object_ptr(wide, m, obj) + PARENT(wide)))

child(wide, m, obj) == read_obj(wide, m, U16(object_ptr(wide, m, obj) + CHILD(wide)))

\* the three writers store one byte, whatever the width
write_sibling(wide, m, obj, sib) ==
    write_u8(m, U16(object_ptr(wide, m, obj) + SIBLING(wide)), U8(sib))

write_parent(wide, m, obj, par) ==
    write_u8(m, U16(object_ptr(wide, m, obj) + PARENT(wide)), U8(par))

write_child(wide, m, obj, ch) ==
    write_u8(m, U16(object_ptr(wide, m, obj) + CHILD(wide)), U8(ch))

\* the while loop of remove.  ch is its variable `child`, seen the values it
\* has had: the loop writes nothing before it leaves, so a value that comes
\* back comes back for ever.
RECURSIVE remove_loop(_, _, _, _, _, _)
remove_loop(wide, m, obj, obj_sibling, ch, seen) ==
    IF ch = 0 THEN [mem |-> m, hang |-> FALSE]
    ELSE IF ch \in seen THEN [mem |-> m, hang |-> TRUE]
    ELSE LET sib == child(wide, m, ch)
         IN  IF sib = obj
             THEN [mem |-> write_sibling(wide, m, ch, obj_sibling), hang |-> FALSE]
             ELSE remove_loop(wide, m, obj, obj_sibling, sib, seen \cup {ch})

\* Object::remove.  The walk starts at child(obj) and follows child links.
remove(wide, m, obj) ==
    LET par == parent(wide, m, obj)
        obj_sibling == sibling(wide, m, obj)
        ch == child(wide, m, obj)
        unlinked == IF ch = obj
                    THEN [mem |-> write_child(wide, m, par, obj_sibling), hang |-> FALSE]
                    ELSE remove_loop(wide, m, obj, obj_sibling, ch, {})
        m1 == write_sibling(wide, unlinked.mem, obj, 0)
    IN  IF par = 0 THEN [mem |-> m, hang |-> FALSE]
        ELSE IF unlinked.hang THEN unlinked
        ELSE [mem |-> write_parent(wide, m1, obj, 0), hang |-> FALSE]

\* Object::insert
insert(wide, m, obj, dest_obj) ==
    LET removed == IF parent(wide, m, obj) # 0 THEN remove(wide, m, obj)
                   ELSE [mem |-> m, hang |-> FALSE]
        m1 == write_sibling(wide, removed.mem, obj, child(wide, removed.mem, dest_obj))
        m2 == write_child(wide, m1, dest_obj, obj)
    IN  IF removed.hang THEN removed
        ELSE [mem |-> write_parent(wide, m2, obj, dest_obj), hang |-> FALSE]

\* the object id a handler hands to Object::<T>: `as u8` for V1-V3
ObjId(s, operand) == IF s.version <= 3 THEN U8(operand) ELSE operand

\* InsertObj::execute
InsertObj_execute(s, operands) ==
    LET r == insert(~(s.version <= 3), s.mem, ObjId(s, operands[1]), ObjId(s, operands[2]))
    IN  IF r.hang THEN Err(s, "hang") ELSE Ok([s EXCEPT !.mem = r.mem], 0)

\* RemoveObj::execute
RemoveObj_execute(s, operands) ==
    LET r == remove(~(s.version <= 3), s.mem, ObjId(s, operands[1]))
    IN  IF r.hang THEN Err(s, "hang") ELSE Ok([s EXCEPT !.mem = r.mem], 0)

\* GetChild::execute
GetChild_execute(s, operands) ==
    LET id == child(~(s.version <= 3), s.mem, ObjId(s, operands[1]))
        n == next_u8(s)
        stored == store_variable(n.st, n.val, id)
    IN  IF stored.res # "ok" THEN stored
        ELSE Ok(branch(stored.st, id # 0), 0)

\* GetSibling::execute
GetSibling_execute(s, operands) ==
    LET id == sibling(~(s.version <= 3), s.mem, ObjId(s, operands[1]))
        n == next_u8(s)
        stored == store_variable(n.st, n.val, id)
    IN  IF stored.res # "ok" THEN stored
        ELSE Ok(branch(stored.st, id # 0), 0)

(***************************************************************************)
(* Attributes (object.rs).  A u32 is held as its four big-endian bytes,    *)
(* <<bits 31..24, 23..16, 15..8, 7..0>>.                                   *)
(***************************************************************************)
\* Memory::read_u32, Memory::write_u32
read_u32(m, addr) ==
    <<MemAt(m, addr), MemAt(m, U16(addr + 1)), MemAt(m, U16(addr + 2)), MemAt(m, U16(addr + 3))>>

write_u32(m, addr, val) ==
    MemSet(MemSet(MemSet(MemSet(m, addr, val[1]), U16(addr + 1), val[2]),
                  U16(addr + 2), val[3]), U16(addr + 3), val[4])

\* x & (1 << k) != 0,  x | 1 << k,  x & !(1 << k)  for k in 0..31
TestBit32(x, k) == Bit(x[4 - (k \div 8)], k % 8) = 1
SetBit32(x, k) == IF TestBit32(x, k) THEN x ELSE [x EXCEPT ![4 - (k \div 8)] = @ + 2 ^ (k % 8)]
ClearBit32(x, k) == IF TestBit32(x, k) THEN [x EXCEPT ![4 - (k \div 8)] = @ - 2 ^ (k % 8)] ELSE x

get_attr_bytes(wide, m, obj) ==
    read_u32(m, U16(object_table_ptr(wide, m) + U16(U8(obj) * SIZE(wide))))

write_attr_bytes(wide, m, obj, attrs) ==
    write_u32(m, U16(object_table_ptr(wide, m) + U16(U8(obj) * SIZE(wide))), attrs)

\* 1 << (31 - attr), attr: u8.  For attr > 31 the subtraction overflows: a
\* panic where overflow checks are on (attr_panics); where they are off the
\* difference wraps to 8 bits and the shift takes it modulo 32 (attr_shift).
attr_panics(attr, overflow_checks) == overflow_checks /\ attr > 31

attr_shift(attr) == U8(31 - attr) % 32

attr_test(wide, m, obj, attr) == TestBit32(get_attr_bytes(wide, m, obj), attr_shift(attr))

attr_set(wide, m, obj, attr) ==
    write_attr_bytes(wide, m, obj, SetBit32(get_attr_bytes(wide, m, obj), attr_shift(attr)))

attr_clear(wide, m, obj, attr) ==
    write_attr_bytes(wide, m, obj, ClearBit32(get_attr_bytes(wide, m, obj), attr_shift(attr)))

\* SetAttr::execute, ClearAttr::execute
SetAttr_execute(s, operands, overflow_checks) ==
    LET attr == U8(operands[2])
    IN  IF attr_panics(attr, overflow_checks) THEN Err(s, "panic")
        ELSE Ok([s EXCEPT !.mem = attr_set(~(s.version <= 3), @, ObjId(s, operands[1]), attr)], 0)

ClearAttr_execute(s, operands, overflow_checks) ==
    LET attr == U8(operands[2])
    IN  IF attr_panics(attr, overflow_checks) THEN Err(s, "panic")
        ELSE Ok([s EXCEPT !.mem = attr_clear(~(s.version <= 3), @, ObjId(s, operands[1]), attr)], 0)


(***************************************************************************)
(* Properties (object.rs).  A function that may not return gives a record  *)
(* with res: "ok", "hang" (a loop that never ends) or "panic" (an overflow *)
(* in a build with overflow checks).                                       *)
(***************************************************************************)
props(wide, m, obj) == read_u16(m, U16(object_ptr(wide, m, obj) + PROPS(wide)))

\* the address after the object's name: that of its first property
first_property_addr(wide, m, obj) ==
    LET top_prop_table_addr == props(wide, m, obj)
    IN  U16(top_prop_table_addr + read_u8(m, top_prop_table_addr) * 2 + 1)

get_prop_len(wide, m, addr) ==
    IF addr = 0 THEN 0
    ELSE IF wide
    THEN LET sz == read_u8(m, U16(addr - 1))
         IN  IF sz = 0 THEN (IF Bit(sz, 6) = 0 THEN 1 ELSE 2)
             ELSE IF sz % 64 = 0 THEN 64
             ELSE sz
    ELSE (read_u8(m, U16(addr - 1)) \div 32) + 1

PropAddr(addr, size_bytes, data_length) ==
    [addr |-> addr, size_bytes |-> size_bytes, data_length |-> data_length]

\* the loops of get_prop_addr, from property_addr on
RECURSIVE get_prop_addr_wide(_, _, _)
get_prop_addr_wide(m, property_addr, prop_id) ==
    LET size == read_u8(m, property_addr)
        id == size % 64
        next_id == read_u8(m, U16(property_addr + 1)) % 64
    IN  IF size = 0 THEN PropAddr(0, 1, 1)
        ELSE IF id = prop_id
        THEN IF Bit(size, 7) = 0
             THEN PropAddr(U16(property_addr + 1), 1, IF Bit(size, 6) = 0 THEN 1 ELSE 2)
             ELSE PropAddr(U16(property_addr + 2), 2, IF Bit(size, 6) = 0 THEN 1 ELSE 2)
        ELSE IF Bit(size, 7) = 0
        THEN get_prop_addr_wide(m, U16(property_addr + (IF Bit(size, 6) = 0 THEN 2 ELSE 3)),
                                prop_id)
        ELSE get_prop_addr_wide(m, U16(property_addr + (IF next_id = 0 THEN 64 + 2
                                                         ELSE next_id + 2)), prop_id)

RECURSIVE get_prop_addr_narrow(_, _, _)
get_prop_addr_narrow(m, property_addr, prop_id) ==
    LET size == read_u8(m, property_addr)
    IN  IF size = 0 THEN PropAddr(0, 1, 1)
        ELSE IF size % 32 = prop_id THEN PropAddr(U16(property_addr + 1), 1, 1)
        ELSE get_prop_addr_narrow(m, U16(property_addr + (size \div 32) + 2), prop_id)

get_prop_addr(wide, m, obj, prop_id) ==
    IF wide THEN get_prop_addr_wide(m, first_property_addr(wide, m, obj), prop_id)
    ELSE get_prop_addr_narrow(m, first_property_addr(wide, m, obj), prop_id)

\* the loop of get_prop_next for u8 objects
RECURSIVE get_prop_next_narrow(_, _, _)
get_prop_next_narrow(m, property_addr, prop_id) ==
    LET size == read_u8(m, property_addr)
    IN  IF size = 0 THEN 0
        ELSE IF size % 32 = prop_id
        THEN read_u8(m, U16(property_addr + (size \div 32) + 2)) % 32
        ELSE get_prop_next_narrow(m, U16(property_addr + (size \div 32) + 2), prop_id)

\* size_bytes is 1 or 2, so both of its bit tests find a clear bit and the
\* address moves on by one.  (size * 2 + 1) is u8 arithmetic.
get_prop_next(wide, m, obj, prop_id, overflow_checks) ==
    LET property_addr == first_property_addr(wide, m, obj)
        first == read_u8(m, property_addr)
        propaddr == get_prop_addr(wide, m, obj, prop_id)
        size == read_u8(m, U16(propaddr.addr - 1)) % 64
        addr == IF Bit(propaddr.size_bytes, 7) = 0
                THEN IF Bit(propaddr.size_bytes, 6) = 0
                     THEN U16(propaddr.addr + 1) ELSE U16(propaddr.addr + 2)
                ELSE IF size = 0 THEN U16(propaddr.addr + 64)
                ELSE U16(propaddr.addr + size)
    IN  IF wide
        THEN IF prop_id = 0
             THEN IF overflow_checks /\ first * 2 + 1 > 255
                  THEN [res |-> "panic", val |-> 0]
                  ELSE [res |-> "ok", val |-> U8(first * 2 + 1) % 64]
             ELSE [res |-> "ok", val |-> read_u8(m, addr) % 64]
        ELSE IF prop_id = 0 THEN [res |-> "ok", val |-> first % 32]
        ELSE [res |-> "ok", val |-> get_prop_next_narrow(m, property_addr, prop_id)]

\* the loop of get_prop for u8 objects, which starts at the address
\* get_prop_addr gave.  A step that leaves addr as it is never ends.
RECURSIVE get_prop_narrow(_, _, _)
get_prop_narrow(m, addr, prop_id) ==
    LET size == read_u8(m, addr)
    IN  IF size = 0
        THEN [res |-> "ok", val |-> read_u16(m, U16(U16(object_table(m) - 2) + prop_id * 2))]
        ELSE IF size % 32 = prop_id
        THEN CASE size \div 32 = 0 -> [res |-> "ok", val |-> read_u8(m, U16(addr + 1))]
               [] size \div 32 = 1 -> [res |-> "ok", val |-> read_u16(m, U16(addr + 1))]
               [] OTHER -> [res |-> "hang", val |-> 0]
        ELSE IF size \div 128 = 0 THEN [res |-> "hang", val |-> 0]
        ELSE get_prop_narrow(m, U16(addr + 1), prop_id)

get_prop(wide, m, obj, prop_id, overflow_checks) ==
    LET prop_addr == get_prop_addr(wide, m, obj, prop_id)
        prop_ptr == U16(object_table(m) - 2)
    IN  IF wide
        THEN IF prop_addr.addr = 0
             THEN IF overflow_checks /\ prop_id * 2 > 255
                  THEN [res |-> "panic", val |-> 0]
                  ELSE [res |-> "ok", val |-> read_u16(m, U16(prop_ptr + U8(prop_id * 2)))]
             ELSE IF Bit(prop_addr.size_bytes, 7) = 0
             THEN IF Bit(prop_addr.size_bytes, 6) = 0
                  THEN [res |-> "ok", val |-> read_u8(m, prop_addr.addr)]
                  ELSE [res |-> "ok", val |-> read_u16(m, prop_addr.addr)]
             ELSE [res |-> "ok", val |-> 0]
        ELSE get_prop_narrow(m, prop_addr.addr, prop_id)

\* the loop of put_prop for u8 objects
RECURSIVE put_prop_narrow(_, _, _, _)
put_prop_narrow(m, property_addr, prop_id, val) ==
    LET size == read_u8(m, property_addr)
    IN  IF size = 0 THEN [res |-> "ok", mem |-> m]
        ELSE IF size % 32 = prop_id
        THEN CASE size \div 32 = 0 ->
                    [res |-> "ok", mem |-> write_u8(m, U16(property_addr + 1), U8(val))]
               [] size \div 32 = 1 ->
                    [res |-> "ok", mem |-> write_u16(m, U16(property_addr + 1), val)]
               [] OTHER -> [res |-> "hang", mem |-> m]
        ELSE put_prop_narrow(m, U16(property_addr + (size \div 32) + 2), prop_id, val)

\* for u16 objects a missing property (addr 0) is written all the same
put_prop(wide, m, obj, prop_id, val) ==
    LET prop_addr == get_prop_addr(wide, m, obj, prop_id)
    IN  IF wide
        THEN IF Bit(prop_addr.size_bytes, 7) = 0
             THEN IF Bit(prop_addr.size_bytes, 6) = 0
                  THEN [res |-> "ok", mem |-> write_u8(m, prop_addr.addr, U8(val))]
                  ELSE [res |-> "ok", mem |-> write_u16(m, prop_addr.addr, val)]
             ELSE [res |-> "ok", mem |-> m]
        ELSE put_prop_narrow(m, first_property_addr(wide, m, obj), prop_id, val)


\* GetProp::execute, GetPropAddr::execute, GetPropLen::execute,
\* GetNextProp::execute: val is the value that is stored
GetProp_execute(s, operands, overflow_checks) ==
    LET value == get_prop(~(s.version <= 3), s.mem, ObjId(s, operands[1]), U8(operands[2]),
                          overflow_checks)
        n == next_u8(s)
    IN  IF value.res # "ok" THEN Err(s, value.res)
        ELSE [store_variable(n.st, n.val, value.val) EXCEPT !.val = value.val]

GetPropAddr_execute(s, operands) ==
    LET addr == get_prop_addr(~(s.version <= 3), s.mem, ObjId(s, operands[1]),
                              U8(operands[2])).addr
        n == next_u8(s)
    IN  [store_variable(n.st, n.val, addr) EXCEPT !.val = addr]

GetPropLen_execute(s, operands) ==
    LET len == get_prop_len(~(s.version <= 3), s.mem, operands[1])
        n == next_u8(s)
    IN  [store_variable(n.st, n.val, len) EXCEPT !.val = len]

GetNextProp_execute(s, operands, overflow_checks) ==
    LET next_prop == get_prop_next(~(s.version <= 3), s.mem, ObjId(s, operands[1]),
                                   U8(operands[2]), overflow_checks)
        n == next_u8(s)
    IN  IF next_prop.res # "ok" THEN Err(s, next_prop.res)
        ELSE [store_variable(n.st, n.val, next_prop.val) EXCEPT !.val = next_prop.val]

\* PutProp::execute
PutProp_execute(s, operands) ==
    LET r == put_prop(~(s.version <= 3), s.mem, ObjId(s, operands[1]), U8(operands[2]),
                      operands[3])
    IN  IF r.res # "ok" THEN Err(s, r.res) ELSE Ok([s EXCEPT !.mem = r.mem], 0)

(***************************************************************************)
(* Zscii (zscii.rs).  A character is its code point.  z is the decoder:    *)
(* ptr, mode, buf, shift_mode, and hang when the call never returns.       *)
(* active holds the addresses of the strings being decoded, one inside the *)
(* other through abbreviations: a string that comes back to itself recurses *)
(* for ever.                                                               *)
(***************************************************************************)
ZSCII_MAP234 ==
    << <<32, 0, 0, 0, 0, 0, 97, 98, 99, 100, 101, 102, 103, 104, 105, 106, 107,
         108, 109, 110, 111, 112, 113, 114, 115, 116, 117, 118, 119, 120, 121, 122>>,
       <<0, 0, 0, 0, 0, 0, 65, 66, 67, 68, 69, 70, 71, 72, 73, 74, 75,
         76, 77, 78, 79, 80, 81, 82, 83, 84, 85, 86, 87, 88, 89, 90>>,
       <<0, 0, 0, 0, 0, 0, 32, 10, 48, 49, 50, 51, 52, 53, 54, 55, 56,
         57, 46, 44, 33, 63, 95, 35, 39, 34, 47, 92, 45, 58, 40, 41>> >>

ZSCII_MAP1 ==
    << <<32, 0, 0, 0, 0, 0, 97, 98, 99, 100, 101, 102, 103, 104, 105, 106, 107,
         108, 109, 110, 111, 112, 113, 114, 115, 116, 117, 118, 119, 120, 121, 122>>,
       <<0, 0, 0, 0, 0, 0, 65, 66, 67, 68, 69, 70, 71, 72, 73, 74, 75,
         76, 77, 78, 79, 80, 81, 82, 83, 84, 85, 86, 87, 88, 89, 90>>,
       <<0, 0, 0, 0, 0, 0, 32, 48, 49, 50, 51, 52, 53, 54, 55, 56, 57,
         46, 44, 33, 63, 95, 35, 39, 34, 47, 92, 60, 45, 58, 40, 41>> >>

\* enum Mode; n is the payload of ABBREV and ZCODE2
Mode(k, n) == [k |-> k, n |-> n]
A0 == Mode("A0", 0)
A1 == Mode("A1", 0)
A2 == Mode("A2", 0)
ABBREV(table) == Mode("ABBREV", table)
ZCODE1 == Mode("ZCODE1", 0)
ZCODE2(code1) == Mode("ZCODE2", code1)

\* Zscii::new
Zscii_new == [ptr |-> 0, mode |-> A0, buf |-> <<>>, shift_mode |-> <<>>, hang |-> FALSE]

\* Zscii::zscii_lookup; mode is 0, 1 or 2
zscii_lookup(m, ch, mode) ==
    IF zmachine_version(m) = 1 THEN ZSCII_MAP1[mode + 1][ch + 1]
    ELSE ZSCII_MAP234[mode + 1][ch + 1]

\* the arm `_` of A0 and A1: the character, then the locked alphabet or A0
PushChar(m, z, ch, alphabet) ==
    [z EXCEPT !.buf = Append(@, zscii_lookup(m, ch, alphabet)),
              !.mode = IF z.shift_mode # <<>> THEN z.shift_mode[1] ELSE A0]

\* an arm that sets shift_mode (V1, V2) and the mode
Lock(z, mode) == [z EXCEPT !.shift_mode = <<mode>>, !.mode = mode]

To(z, mode) == [z EXCEPT !.mode = mode]

RECURSIVE get_string(_, _, _, _)
RECURSIVE decode_zchar(_, _, _, _)

\* Zscii::decode_zchar
decode_zchar(m, z, ch, active) ==
    LET old == zmachine_version(m) < 3
    IN  IF z.hang THEN z
        ELSE IF z.mode = A0 THEN
            CASE ch = 1 -> To(z, ABBREV(0))
              [] ch = 2 -> To(z, IF old THEN A1 ELSE ABBREV(1))
              [] ch = 3 -> To(z, IF old THEN A2 ELSE ABBREV(2))
              [] ch = 4 -> IF old THEN Lock(z, A1) ELSE To(z, A1)
              [] ch = 5 -> IF old THEN Lock(z, A2) ELSE To(z, A2)
              [] OTHER -> PushChar(m, z, ch, 0)
        ELSE IF z.mode = A1 THEN
            CASE ch = 1 -> To(z, ABBREV(0))
              [] ch = 2 -> To(z, IF old THEN A2 ELSE ABBREV(1))
              [] ch = 3 -> To(z, IF old THEN A0 ELSE ABBREV(2))
              [] ch = 4 -> IF old THEN Lock(z, A2) ELSE To(z, A1)
              [] ch = 5 -> IF old THEN Lock(z, A0) ELSE To(z, A2)
              [] OTHER -> PushChar(m, z, ch, 1)
        ELSE IF z.mode = A2 THEN
            CASE ch = 1 -> To(z, ABBREV(0))
              [] ch = 2 -> To(z, IF old THEN A0 ELSE ABBREV(1))
              [] ch = 3 -> To(z, IF old THEN A1 ELSE ABBREV(2))
              [] ch = 4 -> IF old THEN Lock(z, A0) ELSE To(z, A1)
              [] ch = 5 -> IF old THEN Lock(z, A1) ELSE To(z, A2)
              [] ch = 6 -> To(z, ZCODE1)
              [] OTHER -> [z EXCEPT !.buf = Append(@, zscii_lookup(m, ch, 2)), !.mode = A0]
        ELSE IF z.mode.k = "ABBREV" THEN
            LET abbrev == U8(z.mode.n * 32 + ch)
                addr == read_u16(m, U16(abbreviations_table(m) + 2 * abbrev))
                str == get_string(m, Zscii_new, addr, active)
            IN  IF str.hang THEN [z EXCEPT !.hang = TRUE]
                ELSE [z EXCEPT !.buf = @ \o str.buf, !.mode = A0]
        ELSE IF z.mode = ZCODE1 THEN To(z, ZCODE2(ch))
        ELSE \* ZCODE2(code1): a 10-bit code is never a surrogate, so it is the character
            [z EXCEPT !.buf = Append(@, ch + z.mode.n * 32), !.mode = A0]

\* Zscii::get_string.  Both bytes of a pair are read at the parameter ptr,
\* which the loop never moves (it is self.ptr that is advanced); the loop is
\* left when bit 7 of byte1 is clear.  When it is set the next turn reads the
\* same byte again, and so does every turn after it.
get_string(m, z, ptr, active) ==
    LET byte1 == read_u8(m, ptr)
        byte2 == read_u8(m, ptr)
        z0 == [z EXCEPT !.ptr = U16(ptr + 2), !.mode = A0, !.buf = <<>>]
        inner == active \cup {ptr}
        z1 == decode_zchar(m, z0, (byte1 \div 4) % 32, inner)
        z2 == decode_zchar(m, z1, (byte1 % 4) * 8 + (byte2 \div 32), inner)
        z3 == decode_zchar(m, z2, byte2 % 32, inner)
    IN  IF ptr \in active THEN [z EXCEPT !.hang = TRUE]
        ELSE IF z3.hang THEN z3
        ELSE IF Bit(byte1, 7) = 0 THEN z3
        ELSE [z3 EXCEPT !.hang = TRUE]

\* Print::execute.  zscii.get_ptr() (not in zscii.rs) is the decoder's ptr.
Print_execute(s, operands) ==
    LET z == get_string(s.mem, Zscii_new, U16(frame(s).pc), {})
    IN  IF z.hang THEN Err(s, "hang")
        ELSE Ok([SetFrame(s, [frame(s) EXCEPT !.pc = z.ptr]) EXCEPT !.out = @ \o z.buf], 0)

\* PrintRet::execute; zscreen.newline() is the character 10 in out
PrintRet_execute(s, operands) ==
    LET p == Print_execute(s, <<>>)
    IN  IF p.res # "ok" THEN p
        ELSE Ret_execute([p.st EXCEPT !.out = Append(@, 10)], <<1>>)

\* PrintAddr::execute
PrintAddr_execute(s, operands) ==
    LET z == get_string(s.mem, Zscii_new, operands[1], {})
    IN  IF z.hang THEN Err(s, "hang")
        ELSE Ok([s EXCEPT !.out = @ \o z.buf], 0)

\* PrintPAddr::execute.  paddr * 2 is u16 arithmetic: for paddr >= 0x8000 a
\* panic where overflow checks are on, a wrapped address where they are off.
PrintPAddr_execute(s, operands, overflow_checks) ==
    LET paddr == operands[1]
        addr == U16(paddr * 2)
        z == get_string(s.mem, Zscii_new, addr, {})
    IN  IF overflow_checks /\ paddr * 2 > 65535 THEN Err(s, "panic")
        ELSE IF z.hang THEN Err(s, "hang")
        ELSE Ok([s EXCEPT !.out = @ \o z.buf], 0)

(***************************************************************************)
(* ZMachine (zmachine.rs): operand decoding and dispatch.  d is the        *)
(* decoding so far: the state, "ok" or the error that ended it, and the    *)
(* operands pushed.                                                        *)
(***************************************************************************)
\* operands.push(self.state.next_u8() as u16)
push_u8(d) ==
    LET n == next_u8(d.st)
    IN  IF d.res # "ok" THEN d ELSE [st |-> n.st, res |-> "ok", val |-> Append(d.val, n.val)]

\* operands.push(self.state.next_u16())
push_u16(d) ==
    LET n == next_u16(d.st)
    IN  IF d.res # "ok" THEN d ELSE [st |-> n.st, res |-> "ok", val |-> Append(d.val, n.val)]

\* the variable operand taken for a constant: the id is pushed, not its value
push_var_id(d) == push_u8(d)

\* let var_id = self.state.next_u8(); operands.push(self.state.read_variable(var_id)?)
push_var(d) ==
    LET n == next_u8(d.st)
        r == read_variable(n.st, n.val)
    IN  IF d.res # "ok" THEN d
        ELSE IF r.res # "ok" THEN [st |-> r.st, res |-> r.res, val |-> d.val]
        ELSE [st |-> r.st, res |-> "ok", val |-> Append(d.val, r.val)]

\* the loop `for i in 0..4` of the variable form
RECURSIVE decode_var(_, _, _)
decode_var(d, types_byte, i) ==
    LET shift == 6 - (i * 2)
        type_bits == (types_byte \div (2 ^ shift)) % 4
    IN  IF i = 4 \/ d.res # "ok" THEN d
        ELSE IF type_bits = 0 THEN decode_var(push_u16(d), types_byte, i + 1)
        ELSE IF type_bits = 1 THEN decode_var(push_u8(d), types_byte, i + 1)
        ELSE IF type_bits = 2 THEN decode_var(push_var(d), types_byte, i + 1)
        ELSE d

\* execute_instruction up to the dispatch: the match on op_high
decode_operands(s, op) ==
    LET op_high == op \div 16
        d == [st |-> s, res |-> "ok", val |-> <<>>]
        t == next_u8(s)
    IN  CASE op_high \in {0, 1} -> push_u8(push_u8(d))
          [] op_high \in {2, 3} -> push_var(push_u8(d))
          [] op_high \in {4, 5} -> push_u8(push_var(d))
          [] op_high \in {6, 7} -> push_var(push_var(d))
          [] op_high = 8 -> push_u16(d)
          [] op_high = 9 -> push_u8(d)
          [] op_high = 10 -> push_var(d)
          [] op_high = 11 -> IF op = 190
                             THEN [d EXCEPT !.res = "Extended opcode 0xBE not supported yet"]
                             ELSE d
          [] OTHER -> decode_var([d EXCEPT !.st = t.st], t.val, 0)

\* the opcodes ZMachine::new leaves as IllegalInstruction
IllegalOps ==
    {0, 26, 28, 29, 30, 31, 32, 58, 60, 61, 62, 63, 64, 90, 92, 93, 94, 95, 96,
     122, 124, 125, 126, 127, 180, 185, 190, 191, 192, 218, 220, 221, 222, 223,
     236, 238, 240, 241, 242, 243, 244, 245, 247, 249, 250, 251, 252, 253, 254, 255}

\* the largest i for which the handler registered for op evaluates
\* operands[i - 1], as its first statements, before it changes anything
OperandsRead(op) ==
    IF op \in {1, 33, 65, 97, 193} THEN 1                \* Je
    ELSE IF op \in {128, 144, 160} THEN 1                \* Jz
    ELSE IF op \in {139, 155, 171} THEN 1                \* Ret
    ELSE IF op \in {224, 232} THEN 1                     \* Call, Push
    ELSE IF op \in {225, 226} THEN 3                     \* StoreW, StoreB
    ELSE 0

\* self.instructions[op].execute(state, operands), for the opcodes of
\* IllegalOps and those registered to the handlers above.  operands is a Vec:
\* indexing it past its length panics.
instruction_execute(s, op, operands) ==
    IF Len(operands) < OperandsRead(op) THEN Err(s, "panic")
    ELSE IF op \in {1, 33, 65, 97, 193} THEN Je_execute(s, operands)
    ELSE IF op = 225 THEN StoreW_execute(s, operands)
    ELSE IF op = 226 THEN StoreB_execute(s, operands)
    ELSE IF op \in {128, 144, 160} THEN Jz_execute(s, operands)
    ELSE IF op = 176 THEN RTrue_execute(s, operands)
    ELSE IF op = 177 THEN RFalse_execute(s, operands)
    ELSE IF op \in {139, 155, 171} THEN Ret_execute(s, operands)
    ELSE IF op = 178 THEN Print_execute(s, operands)
    ELSE IF op = 179 THEN PrintRet_execute(s, operands)
    ELSE IF op = 184 THEN RetPopped_execute(s, operands)
    ELSE IF op = 186 THEN Quit_execute(s, operands)
    ELSE IF op = 224 THEN Call_execute(s, operands)
    ELSE IF op = 232 THEN Push_execute(s, operands)
    ELSE Err(s, "Illegal opcode")

\* ZMachine::execute_instruction
execute_instruction(s) ==
    LET n == next_u8(s)
        d == decode_operands(n.st, n.val)
    IN  IF d.res # "ok" THEN Err(d.st, d.res)
        ELSE instruction_execute(d.st, n.val, d.val)

(***************************************************************************)
(* Story images.  An image is given by the bytes that are not zero.        *)
(***************************************************************************)
Image(pairs) == [a \in {p[1] : p \in pairs} |-> (CHOOSE p \in pairs : p[1] = a)[2]]

Word(a, w) == {<<a, Hi(w)>>, <<a + 1, Lo(w)>>}

\* The addresses of the test images (instruction_tests.rs): initial PC 0x100,
\* globals at 0x200, the object table at 0x300, a routine at 0x400 (packed 0x200).
L == [code |-> 256, globals |-> 512, objects |-> 768, routine |-> 1024,
      packed |-> 512, array |-> 896, text |-> 1280, props |-> 1152, abbrev |-> 1536, far |-> 16384]

HeaderPC(ver, pc) == {<<0, ver>>} \cup Word(6, pc) \cup Word(12, L.globals)
                       \cup Word(10, L.objects) \cup Word(24, L.abbrev)

Header(ver) == HeaderPC(ver, L.code)

\* A story whose main code and routine body are filled with the byte cb, so
\* that every store byte read is cb, and whose routine declares nl locals with
\* the default 0x1234, 0x1235, ...
RoutineBody(nl) == L.routine + 1 + 2 * nl

VMStory(ver, cb, nl) ==
    Image(Header(ver)
          \cup {<<L.code + i, cb>> : i \in 0..MaxCode}
          \cup {<<L.routine, nl>>}
          \cup UNION {Word(L.routine + 1 + 2 * (i - 1), 4660 + (i - 1)) : i \in 1..nl}
          \cup {<<RoutineBody(nl) + i, cb>> : i \in 0..MaxCode})

\* State::new
State_new(story) ==
    [mem |-> story, stack |-> <<>>, sp |-> 0, frames |-> <<StackFrame_main(story)>>,
     running |-> TRUE, version |-> zmachine_version(story), out |-> <<>>]

(***************************************************************************)
(* What is remembered of the handler that ran last.                        *)
(***************************************************************************)
\* ctx, for a ret: the CALL that made the frame (the caller's sp before it, the
\* caller's PC after its store byte, the store byte); for a push: sp before it
\* and the value; for a pull: the push that came right before it, if one did
NoCtx == [valid |-> FALSE, sp0 |-> 0, ret_pc |-> 0, store |-> 0]

Rec(op, args, r, ctx) ==
    [op |-> op, args |-> args, res |-> r.res, val |-> r.val, ctx |-> ctx]

Start == [op |-> "new", args |-> <<>>, res |-> "ok", val |-> 0, ctx |-> NoCtx]

\* the loop of run() without the `?`: it goes on after a handler has failed
Live_unchecked == running

\* run(): the next handler runs only while running and no handler has failed
Live == running /\ last.res = "ok"

Step(op, args, r, ctx) ==
    /\ Becomes(r.st)
    /\ last' = Rec(op, args, r, ctx)

(***************************************************************************)
(* SpecVM: the handlers that work on variables, the stack and the frames,  *)
(* run in any order on a story whose store bytes are all cb.               *)
(***************************************************************************)
StoreBytes == <<16, 1, 0>>    \* global 0x10, local 1, the stack
PushVals == {42}
RetVals == {22136}            \* 0x5678
GlobalIds == {16, 17}
VarIds == {0, 1} \cup GlobalIds
PullVars == {16}
ArgLists == {<<>>, <<7>>}
Routines == {0, L.packed}

\* where the frame's code starts, and the stack pointer it started with
CodeStart == IF Len(frames) = 1 THEN L.code ELSE RoutineBody(read_u8(mem, L.routine))
EvalBase == IF Len(frames) = 1 THEN 0 ELSE frame(Cur).bp
MayFetch == frame(Cur).pc < CodeStart + MaxCode
MayPush == sp < EvalBase + MaxEval

InitVM ==
    /\ \E k \in 1..Len(StoreBytes), nl \in 0..MaxLocals :
          /\ mem = VMStory(3, StoreBytes[k], nl)
          /\ stack = State_new(mem).stack
          /\ sp = State_new(mem).sp
          /\ frames = State_new(mem).frames
          /\ running = State_new(mem).running
          /\ version = State_new(mem).version
          /\ out = State_new(mem).out
    /\ last = Start
    /\ calls = <<>>

VMPush ==
    \E v \in PushVals :
        /\ Live /\ MayPush
        /\ Step("push", <<v>>, Push_execute(Cur, <<v>>),
                [valid |-> TRUE, sp0 |-> sp, ret_pc |-> 0, store |-> v])
        /\ UNCHANGED calls

VMPull ==
    \E var \in PullVars :
        /\ Live
        /\ Step("pull", <<var>>, Pull_execute(Cur, <<var>>),
                IF last.op = "push" /\ last.res = "ok" THEN last.ctx ELSE NoCtx)
        /\ UNCHANGED calls

VMCall ==
    \E r \in Routines, args \in ArgLists :
        LET res == Call_execute(Cur, <<r>> \o args)
            call == [valid |-> TRUE, sp0 |-> sp, ret_pc |-> U32(frame(Cur).pc + 1),
                     store |-> read_u8(mem, U16(frame(Cur).pc))]
        IN  /\ Live /\ MayFetch /\ MayPush
            /\ Len(frames) < MaxDepth
            /\ Step("call", <<r>> \o args, res, NoCtx)
            /\ calls' = IF r = 0 THEN calls ELSE Append(calls, call)

VMRet ==
    \E v \in RetVals :
        LET res == Ret_execute(Cur, <<v>>)
            call == IF calls = <<>> THEN NoCtx ELSE calls[Len(calls)]
        IN  /\ Live
            /\ Step("ret", <<v>>, res, call)
            /\ calls' = IF calls = <<>> THEN calls ELSE SubSeq(calls, 1, Len(calls) - 1)

NextVM == VMPush \/ VMPull \/ VMCall \/ VMRet

SpecVM == InitVM /\ [][NextVM]_vars

(***************************************************************************)
(* SpecMem: word writes and global variables on a story whose global table *)
(* holds the words 100, 101, ... from its first word on.                   *)
(***************************************************************************)
MaxIndex == 1          \* the largest array index STOREW is given
GlobalWords == 20      \* words of the global table the story fills

MemStory == Image(Header(3) \cup UNION {Word(L.globals + 2 * k, 100 + k) : k \in 0..GlobalWords})

Words == {1234, 4660}      \* 0x04D2, 0x1234
Arrays == {L.array}

InitMem ==
    /\ mem = MemStory
    /\ stack = State_new(mem).stack
    /\ sp = State_new(mem).sp
    /\ frames = State_new(mem).frames
    /\ running = State_new(mem).running
    /\ version = State_new(mem).version
    /\ out = State_new(mem).out
    /\ last = Start
    /\ calls = <<>>

\* State::read_variable on a global, as the operand decoder calls it
ReadVariable ==
    \E id \in GlobalIds :
        /\ Live
        /\ Step("read_variable", <<id>>, read_variable(Cur, id), NoCtx)
        /\ UNCHANGED calls

\* State::store_variable on a global
StoreVariable ==
    \E id \in GlobalIds, v \in Words :
        /\ Live
        /\ Step("store_variable", <<id, v>>, store_variable(Cur, id, v), NoCtx)
        /\ UNCHANGED calls

\* Memory::write_u16
WriteU16 ==
    \E a \in {L.array + i : i \in 0..MaxIndex}, v \in Words :
        /\ Live
        /\ Step("write_u16", <<a, v>>, Ok([Cur EXCEPT !.mem = write_u16(@, a, v)], 0), NoCtx)
        /\ UNCHANGED calls

\* the STOREW handler
StoreW ==
    \E a \in Arrays, i \in 0..MaxIndex, v \in Words :
        /\ Live
        /\ Step("storew", <<a, i, v>>, StoreW_execute(Cur, <<a, i, v>>), NoCtx)
        /\ UNCHANGED calls

NextMem == ReadVariable \/ StoreVariable \/ WriteU16 \/ StoreW

SpecMem == InitMem /\ [][NextMem]_vars

(***************************************************************************)
(* SpecObj: insert_obj and remove_obj on a V3 story of NumObjects objects  *)
(* that all start without parent, sibling or child, as in the tests'       *)
(* image.  Only operations with o # d and d not below o are made.          *)
(***************************************************************************)
Objects == 1..NumObjects

ObjStory == Image(Header(3))

Wide == ~(version <= 3)

\* the objects above x: its parent, its parent's parent, ...
RECURSIVE Above(_, _, _)
Above(m, x, fuel) ==
    LET p == parent(Wide, m, x)
    IN  IF p = 0 \/ fuel = 0 THEN {} ELSE {p} \cup Above(m, p, fuel - 1)

\* d is not o and not a descendant of o
Allowed(o, d) == o # d /\ o \notin Above(mem, d, NumObjects)

\* the objects met from x along sibling links, cut after fuel of them
RECURSIVE Chain(_, _, _)
Chain(m, x, fuel) ==
    IF x = 0 \/ fuel = 0 THEN <<>>
    ELSE <<x>> \o Chain(m, sibling(Wide, m, x), fuel - 1)

\* the chain from x reaches 0: it is not longer than there are objects
Finite(m, x) == Len(Chain(m, x, NumObjects + 1)) <= NumObjects

\* how often x is met on the chain from start
Occurs(m, x, start) ==
    LET c == Chain(m, start, NumObjects + 1)
    IN  Cardinality({i \in DOMAIN c : c[i] = x})

WellFormed(m) ==
    \A x \in Objects :
        /\ Finite(m, x)
        /\ \A p \in Objects :
              parent(Wide, m, x) = p <=> Occurs(m, x, child(Wide, m, p)) = 1

InitObj ==
    /\ mem = ObjStory
    /\ stack = State_new(mem).stack
    /\ sp = State_new(mem).sp
    /\ frames = State_new(mem).frames
    /\ running = State_new(mem).running
    /\ version = State_new(mem).version
    /\ out = State_new(mem).out
    /\ last = Start
    /\ calls = <<>>

\* ctx: whether the tree was well-formed before the operation, and o's parent then
ObjInsert ==
    \E o \in Objects, d \in Objects :
        /\ Live /\ Allowed(o, d)
        /\ Step("insert_obj", <<o, d>>, InsertObj_execute(Cur, <<o, d>>),
                [valid |-> WellFormed(mem), parent |-> parent(Wide, mem, o)])
        /\ UNCHANGED calls

ObjRemove ==
    \E o \in Objects :
        /\ Live
        /\ Step("remove_obj", <<o>>, RemoveObj_execute(Cur, <<o>>),
                [valid |-> WellFormed(mem), parent |-> parent(Wide, mem, o)])
        /\ UNCHANGED calls

NextObj == ObjInsert \/ ObjRemove

SpecObj == InitObj /\ [][NextObj]_vars

\* C3: from a well-formed tree, any sequence of insert_obj and remove_obj with
\* o # d and d not a descendant of o leaves the tree well-formed: parent(x) = p
\* exactly when x is met once on the sibling chain from child(p), and every
\* sibling chain ends.
C3_TreeStaysWellFormed == WellFormed(mem)

\* C4: after insert(o, d) on a well-formed tree, o # d both non-zero, also when
\* o had a parent before: parent(o) = d, child(d) = o, and the walk from
\* child(d) along sibling links meets o exactly once before it reaches 0.
C4_InsertMakesFirstChild ==
    (last.op = "insert_obj" /\ last.ctx.valid) =>
        /\ last.res = "ok"
        /\ parent(Wide, mem, last.args[1]) = last.args[2]
        /\ child(Wide, mem, last.args[2]) = last.args[1]
        /\ Finite(mem, child(Wide, mem, last.args[2]))
        /\ Occurs(mem, last.args[1], child(Wide, mem, last.args[2])) = 1

\* C5: after remove(o) of an object whose parent p is not 0, in a well-formed
\* tree: parent(o) = 0, sibling(o) = 0 and o is not met from child(p) along
\* sibling links; so child(p) = 0 when o was the only child of p.
C5_RemoveDetaches ==
    (last.op = "remove_obj" /\ last.ctx.valid /\ last.ctx.parent # 0) =>
        /\ last.res = "ok"
        /\ parent(Wide, mem, last.args[1]) = 0
        /\ sibling(Wide, mem, last.args[1]) = 0
        /\ Occurs(mem, last.args[1], child(Wide, mem, last.ctx.parent)) = 0

(***************************************************************************)
(* SpecStr: PRINT and PRINT_ADDR on a story that holds one Z-string, at    *)
(* the initial PC and again at the text address.                           *)
(***************************************************************************)
MaxWords == 2          \* words of the longest Z-string of a story
MaxOut == 9            \* characters on the screen after which nothing more is printed

\* "hello" (test_print); a two-word string with punctuation; "Hi" and "abc", one word each
Texts == << <<53, 81, 198, 133>>, <<22, 70, 128, 165>>, <<145, 174>>, <<152, 232>> >>
StrVersions == {1, 3}

StrStory(ver, text) ==
    Image(Header(ver)
          \cup {<<L.code + i - 1, text[i]>> : i \in DOMAIN text}
          \cup {<<L.text + i - 1, text[i]>> : i \in DOMAIN text}
          \cup Word(L.abbrev, L.text))

InitStr ==
    /\ \E k \in DOMAIN Texts, ver \in StrVersions :
          /\ mem = StrStory(ver, Texts[k])
          /\ stack = State_new(mem).stack
          /\ sp = State_new(mem).sp
          /\ frames = State_new(mem).frames
          /\ running = State_new(mem).running
          /\ version = State_new(mem).version
          /\ out = State_new(mem).out
    /\ last = Start
    /\ calls = <<>>

\* ctx: the PC (or the address) the string is read from, what was on the
\* screen before, and whether a Z-string of the story starts there
StrPrint ==
    /\ Live /\ Len(out) < MaxOut
    /\ frame(Cur).pc < L.code + 2 * MaxWords
    /\ Step("print", <<>>, Print_execute(Cur, <<>>),
            [valid |-> frame(Cur).pc = L.code, at |-> frame(Cur).pc, out0 |-> out])
    /\ UNCHANGED calls

StrPrintAddr ==
    \E a \in {L.text + 2 * i : i \in 0..(MaxWords - 1)} :
        /\ Live /\ Len(out) < MaxOut
        /\ Step("print_addr", <<a>>, PrintAddr_execute(Cur, <<a>>),
                [valid |-> a = L.text, at |-> a, out0 |-> out])
        /\ UNCHANGED calls

NextStr == StrPrint \/ StrPrintAddr

SpecStr == InitStr /\ [][NextStr]_vars

\* the address just past the first word, from a on, whose high bit is set
RECURSIVE EndOfString(_, _, _)
EndOfString(m, a, fuel) ==
    IF Bit(read_u8(m, a), 7) = 1 \/ fuel = 0 THEN a + 2
    ELSE EndOfString(m, a + 2, fuel - 1)

\* the characters of the words from a up to that word: each word's three
\* Z-characters, in order, through decode_zchar
RECURSIVE Characters(_, _, _, _)
Characters(m, z, a, fuel) ==
    LET byte1 == read_u8(m, a)
        byte2 == read_u8(m, a + 1)
        z1 == decode_zchar(m, z, (byte1 \div 4) % 32, {a})
        z2 == decode_zchar(m, z1, (byte1 % 4) * 8 + (byte2 \div 32), {a})
        z3 == decode_zchar(m, z2, byte2 % 32, {a})
    IN  IF Bit(byte1, 7) = 1 \/ fuel = 0 THEN z3.buf
        ELSE Characters(m, z3, a + 2, fuel - 1)

IsHello(m, a) ==
    <<read_u8(m, a), read_u8(m, a + 1), read_u8(m, a + 2), read_u8(m, a + 3)>> = <<53, 81, 198, 133>>

\* C7: decoding the Z-string at a reads the words from a on, emits the
\* characters of every word read and stops right after the first word whose
\* high bit is set; the end pointer is the address just past that word.  The
\* bytes 35 51 C6 85 give exactly "hello" and PRINT leaves PC = start + 4.
C7_ZStringDecode ==
    (last.op \in {"print", "print_addr"} /\ last.ctx.valid) =>
        /\ last.res = "ok"
        /\ out = last.ctx.out0 \o Characters(mem, Zscii_new, last.ctx.at, MaxWords)
        /\ last.op = "print" => frame(Cur).pc = EndOfString(mem, last.ctx.at, MaxWords)
        /\ IsHello(mem, last.ctx.at) =>
              /\ out = last.ctx.out0 \o <<104, 101, 108, 108, 111>>
              /\ last.op = "print" => frame(Cur).pc = last.ctx.at + 4

(***************************************************************************)
(* SpecBranch: JZ on a story whose code, far enough from address 0 for any *)
(* backward branch, is the two branch bytes b1 b2, twice.                  *)
(***************************************************************************)
BranchSecond == {0, 1, 2, 3, 127, 128, 254, 255}    \* second branch bytes
JzOperands == {0, 1}

BranchStory(b1, b2) ==
    Image(HeaderPC(3, L.far)
          \cup {<<L.far, b1>>, <<L.far + 1, b2>>, <<L.far + 2, b1>>, <<L.far + 3, b2>>})

InitBranch ==
    /\ \E b1 \in Byte, b2 \in BranchSecond :
          /\ mem = BranchStory(b1, b2)
          /\ stack = State_new(mem).stack
          /\ sp = State_new(mem).sp
          /\ frames = State_new(mem).frames
          /\ running = State_new(mem).running
          /\ version = State_new(mem).version
          /\ out = State_new(mem).out
    /\ last = Start
    /\ calls = <<>>

\* ctx: the PC before the handler ran, that is the address of the branch bytes
BrJz ==
    \E a \in JzOperands :
        /\ Live
        /\ frame(Cur).pc \in L.far .. (L.far + 2)
        /\ Step("jz", <<a>>, Jz_execute(Cur, <<a>>),
                [valid |-> TRUE, at |-> frame(Cur).pc])
        /\ UNCHANGED calls

NextBranch == BrJz

SpecBranch == InitBranch /\ [][NextBranch]_vars

\* the first and second branch byte of the branch that ran last, its
\* condition, its form and its offset as the branch bytes encode it
BrFirst == read_u8(mem, last.ctx.at)
BrSecond == read_u8(mem, last.ctx.at + 1)
BrCondition == last.args[1] = 0
BrShort == Bit(BrFirst, 6) = 1
BrAfter == last.ctx.at + (IF BrShort THEN 1 ELSE 2)
BrField14 == (BrFirst % 64) * 256 + BrSecond
BrOffset == IF BrShort THEN BrFirst % 64
            ELSE IF BrField14 >= 8192 THEN BrField14 - 16384 ELSE BrField14
BrTaken == BrCondition <=> (Bit(BrFirst, 7) = 1)

\* C8: a branch evaluated with condition c is taken iff c equals bit 7 of the
\* first branch byte; taken with an offset other than 0 and 1 it leaves
\* PC = (address just after the branch bytes) + offset - 2, offset being the
\* unsigned 6-bit field when bit 6 is set and else the sign-extended 14-bit
\* value of both bytes; not taken it leaves the PC just after the 1 (short)
\* or 2 (long) branch bytes.
C8_BranchTarget ==
    last.op = "jz" =>
        /\ last.res = "ok"
        /\ (BrTaken /\ BrOffset \notin {0, 1}) => frame(Cur).pc = BrAfter + BrOffset - 2
        /\ ~BrTaken => frame(Cur).pc = BrAfter

\* a long branch backwards was taken
C8_Witness ==
    /\ last.op = "jz"
    /\ BrTaken /\ ~BrShort /\ BrOffset < 0
    /\ frame(Cur).pc = BrAfter + BrOffset - 2
    /\ frame(Cur).pc < last.ctx.at

(***************************************************************************)
(* SpecDecode: one instruction executed at the initial PC of a story whose *)
(* code is an opcode, a first byte after it and then the bytes of          *)
(* CodeTail; the global table holds 100, 101, ... as in SpecMem.           *)
(***************************************************************************)
DecodeOps == IllegalOps \cup {128, 144, 160, 176, 177}
\* the first byte after the opcode: for the variable form the types byte
\* (0x00, 0x1B, 0x2F, 0x55, 0xAA, 0xBF, 0xEA, 0xFF), else an operand
TypesBytes == {0, 27, 47, 85, 170, 191, 234, 255}
OperandBytes == {0, 1, 16, 17, 100}
CodeTail == <<16, 17, 1, 18, 2, 19, 3, 20>>

DecodeStory(op, first) ==
    Image(Header(3)
          \cup {<<L.code, op>>, <<L.code + 1, first>>}
          \cup {<<L.code + 1 + i, CodeTail[i]>> : i \in DOMAIN CodeTail}
          \cup UNION {Word(L.globals + 2 * k, 100 + k) : k \in 0..GlobalWords})

InitDecode ==
    /\ \E op \in DecodeOps :
       \E first \in (IF op >= 192 THEN TypesBytes ELSE OperandBytes) :
          /\ mem = DecodeStory(op, first)
          /\ stack = State_new(mem).stack
          /\ sp = State_new(mem).sp
          /\ frames = State_new(mem).frames
          /\ running = State_new(mem).running
          /\ version = State_new(mem).version
          /\ out = State_new(mem).out
    /\ last = Start
    /\ calls = <<>>

\* last.args: the operands decoded; ctx: the state before, the PC and the
\* Result when the decoding ended
ExecuteInstruction ==
    LET n == next_u8(Cur)
        d == decode_operands(n.st, n.val)
        r == execute_instruction(Cur)
    IN  /\ Live
        /\ frame(Cur).pc = L.code
        /\ Step("execute_instruction", d.val, r,
                [valid |-> TRUE, pre |-> Cur, decoded_pc |-> frame(d.st).pc, decode_res |-> d.res])
        /\ UNCHANGED calls

NextDecode == ExecuteInstruction

SpecDecode == InitDecode /\ [][NextDecode]_vars

\* the operand types the form bits of opcode op give, the types byte being
\* types: 0 large constant, 1 small constant, 2 variable
RECURSIVE TypeFields(_, _)
TypeFields(types, i) ==
    LET field == (types \div (2 ^ (6 - 2 * i))) % 4
    IN  IF i = 4 \/ field = 3 THEN <<>> ELSE <<field>> \o TypeFields(types, i + 1)

OperandTypes(op, types) ==
    IF Bit(op, 7) = 0
    THEN <<IF Bit(op, 6) = 1 THEN 2 ELSE 1, IF Bit(op, 5) = 1 THEN 2 ELSE 1>>
    ELSE IF Bit(op, 6) = 0
    THEN (IF (op \div 16) % 4 = 3 THEN <<>> ELSE <<(op \div 16) % 4>>)
    ELSE TypeFields(types, 0)

\* reading operands of the types left, from address a on and in state s: the
\* values, the address after them, and whether every load succeeded
RECURSIVE Operands(_, _, _)
Operands(s, a, types) ==
    LET ty == Head(types)
        loaded == load(s, read_u8(s.mem, a))
        rest == Operands(IF ty = 2 THEN loaded.st ELSE s, a + (IF ty = 0 THEN 2 ELSE 1), Tail(types))
        value == IF ty = 0 THEN read_u16(s.mem, a)
                 ELSE IF ty = 1 THEN read_u8(s.mem, a) ELSE loaded.val
    IN  IF types = <<>> THEN [vals |-> <<>>, end |-> a, ok |-> TRUE]
        ELSE IF ty = 2 /\ loaded.res # "ok" THEN [vals |-> <<>>, end |-> a + 1, ok |-> FALSE]
        ELSE [rest EXCEPT !.vals = <<value>> \o @]

\* what the claim expects of the instruction that ran last
DecOp == read_u8(mem, L.code)
DecVariableForm == DecOp >= 192
DecExpected ==
    Operands(last.ctx.pre, L.code + (IF DecVariableForm THEN 2 ELSE 1),
             OperandTypes(DecOp, read_u8(mem, L.code + 1)))

\* C9: execute_instruction decodes the operands from the form bits before it
\* dispatches: top bits 00/01 give two one-byte operands, the first a variable
\* iff bit 6 and the second iff bit 5; top bits 10 give one operand of the type
\* in bits 5,4 (00 large, 01 small, 10 variable) or none for 11; top bits 11
\* read a types byte and decode at most four operands, left to right, up to the
\* first field 11; a variable operand is what load yields for the id; the PC
\* advances by exactly the bytes consumed.
C9_OperandDecoding ==
    last.op = "execute_instruction" =>
        /\ last.args = DecExpected.vals
        /\ last.ctx.decoded_pc = DecExpected.end
        /\ DecExpected.ok => last.ctx.decode_res \in {"ok", "Extended opcode 0xBE not supported yet"}
        /\ ~DecExpected.ok => last.ctx.decode_res = "Stack underflow"

\* a variable-form instruction was decoded into three operands, a large
\* constant, a small constant and a variable, that took 1 + 1 + 2 + 1 + 1 bytes
C9_Witness ==
    /\ last.op = "execute_instruction"
    /\ DecVariableForm
    /\ read_u8(mem, L.code + 1) = 27
    /\ last.args = <<4113, 1, 118>>
    /\ last.ctx.decoded_pc = L.code + 6

\* C6: write_u16(a, v) then read_u16(a) is v, with the high byte at a and the
\* low byte at a + 1; so STOREW array, index, v leaves v as the word at
\* array + 2 * index.
C6_WordRoundTrip ==
    /\ last.op = "write_u16" =>
          /\ read_u16(mem, last.args[1]) = last.args[2]
          /\ MemAt(mem, last.args[1]) = Hi(last.args[2])
          /\ MemAt(mem, last.args[1] + 1) = Lo(last.args[2])
    /\ last.op = "storew" =>
          read_u16(mem, last.args[1] + 2 * last.args[2]) = last.args[3]

\* C10: reading global i yields, and storing to global i writes, the big-endian
\* word at globals_base + 2 * (i - 0x10), globals_base being the header word at 0x0C.
C10_GlobalAddress ==
    /\ last.op = "read_variable" =>
          last.val = read_u16(mem, read_u16(mem, 12) + 2 * (last.args[1] - 16))
    /\ last.op = "store_variable" =>
          read_u16(mem, read_u16(mem, 12) + 2 * (last.args[1] - 16)) = last.args[2]

\* reading variable id now succeeds and yields v
VarHolds(id, v) == load(Cur, id).res = "ok" /\ load(Cur, id).val = v

\* C1: after the RET v of a routine that a CALL entered, the PC is the caller's
\* PC just after the CALL's store byte, sp is the caller's sp just before the
\* CALL, and the variable the store byte names holds v.
C1_CallRetRestores ==
    (last.op = "ret" /\ last.ctx.valid) =>
        /\ last.res = "ok"
        /\ frame(Cur).pc = last.ctx.ret_pc
        /\ sp = last.ctx.sp0
        /\ VarHolds(last.ctx.store, last.args[1])

\* C2: a push of x followed at once by a pop in the same frame succeeds, yields
\* x and leaves sp as it was before the push; PUSH 42 then PULL into global
\* 0x10 leaves 42 in that global.
C2_PushThenPop ==
    (last.op = "pull" /\ last.ctx.valid) =>
        /\ last.res = "ok"
        /\ last.val = last.ctx.store
        /\ sp = last.ctx.sp0
        /\ read_u16(mem, global_variables(mem) + 2 * (last.args[1] - 16)) = last.ctx.store

(***************************************************************************)
(* The stack pointer and the frame base (SpecVM).                          *)
(***************************************************************************)
\* C11: in every reachable state, the state State::new builds included, the
\* stack pointer is at or above the base pointer of the current frame.
C11_SpAtLeastBp == sp >= frame(Cur).bp

MaxProg == 2

Blocks ==
    << <<144, 0, 194>>,            \* jz 0, taken, offset 2: goes on
       <<186>>,                    \* quit
       <<185>>,                    \* 0xB9, not registered
       <<176>>,                    \* rtrue
       <<177>>,                    \* rfalse
       <<155, 5>>,                 \* ret 5
       <<184>>,                    \* ret_popped
       <<179, 145, 174>>,          \* print_ret, a one-word string
       <<179, 53, 81, 198, 133>>,  \* print_ret, a two-word string
       <<232, 127, 42>>,           \* push 42
       <<224, 63, 2, 0, 16>> >>    \* call L.packed -> global 0x10

RetOps == {139, 155, 171, 176, 177, 179, 184}

RECURSIVE Flatten(_)
Flatten(seqs) == IF seqs = <<>> THEN <<>> ELSE Head(seqs) \o Flatten(Tail(seqs))

\* the programs of at most MaxProg instructions, and the one that fills the
\* main frame's stack above its base before a ret_popped
Programs ==
    UNION {{Flatten([i \in 1..n |-> Blocks[p[i]]]) : p \in [1..n -> DOMAIN Blocks]} :
              n \in 0..MaxProg}
    \cup {Flatten([i \in 1..(MAIN_BP + 1) |-> <<232, 127, 42>>]) \o <<184>>}

RunStory(code) ==
    Image(Header(3)
          \cup {<<L.code + i - 1, code[i]>> : i \in DOMAIN code}
          \cup {<<L.routine, 0>>, <<L.routine + 1, 176>>})

InitRun ==
    /\ \E code \in Programs :
          /\ mem = RunStory(code)
          /\ stack = State_new(mem).stack
          /\ sp = State_new(mem).sp
          /\ frames = State_new(mem).frames
          /\ running = State_new(mem).running
          /\ version = State_new(mem).version
          /\ out = State_new(mem).out
    /\ last = Start
    /\ calls = <<>>

\* one turn of the loop of run(); last.args is the opcode, ctx the state before
RunStep ==
    /\ Live
    /\ last.op # "run"
    /\ Step("step", <<next_u8(Cur).val>>, execute_instruction(Cur),
            [valid |-> TRUE, pre |-> Cur])
    /\ UNCHANGED calls

\* run() returns: Ok(()) when the loop ends, else the error `?` passes on.
\* A handler that never returns leaves run() inside it.
RunReturn ==
    /\ ~Live
    /\ last.op \notin {"run", "new"}
    /\ last.res # "hang"
    /\ last' = [last EXCEPT !.op = "run"]
    /\ UNCHANGED <<mem, stack, sp, frames, running, version, out, calls>>

NextRun == RunStep \/ RunReturn

SpecRun == InitRun /\ [][NextRun]_vars

\* C13: once quit has run (running is clear) or an instruction has returned an
\* error, run() fetches and executes nothing more: the machine state stays as
\* it is and the one step left is the return of run(), which hands its caller
\* that error (Ok when the loop ended on quit).
C13_RunStops ==
    [][(~running \/ last.res # "ok") =>
          /\ UNCHANGED <<mem, stack, sp, frames, running, out>>
          /\ last'.op = "run"
          /\ last'.res = last.res]_vars

\* run() has returned an instruction's error after at least one instruction
\* before it went well
C13_Witness ==
    /\ last.op = "run"
    /\ last.res \notin {"ok", "hang"}
    /\ frame(last.ctx.pre).pc > L.code
    /\ running

\* C14: ret, rtrue, rfalse, ret_popped and print_ret executed in the main frame
\* return an error, and where nothing comes before the frame's pop (ret,
\* rtrue, rfalse) it is that of the return from the main routine.
C14_ReturnFromMain ==
    (/\ last.op = "step"
     /\ last.args[1] \in RetOps
     /\ Len(last.ctx.pre.frames) = 1) =>
        /\ last.res \notin {"ok", "hang"}
        /\ last.args[1] \in {139, 155, 171, 176, 177} =>
               last.res = "Attempted to return from main routine"

(***************************************************************************)
(* SpecAttr: set_attr and clear_attr in any order on the objects of a V3   *)
(* and of a V5 story, built with and without overflow checks.              *)
(***************************************************************************)
AttrVersions == {3, 5}
AttrObjects == {1, 2}
AttrIds == IF version <= 3 THEN {0, 8, 31} ELSE {0, 8, 31, 32, 40, 47}

\* the attribute numbers of the version
ValidAttrs == IF version <= 3 THEN 0..31 ELSE 0..47

InitAttr ==
    /\ \E ver \in AttrVersions :
          /\ mem = Image(Header(ver))
          /\ stack = State_new(mem).stack
          /\ sp = State_new(mem).sp
          /\ frames = State_new(mem).frames
          /\ running = State_new(mem).running
          /\ version = State_new(mem).version
          /\ out = State_new(mem).out
    /\ last = Start
    /\ calls = <<>>

\* ctx: the memory before, and how the build treats overflow
AttrSet ==
    \E o \in AttrObjects, n \in AttrIds, checks \in BOOLEAN :
        /\ Live
        /\ Step("set_attr", <<o, n>>, SetAttr_execute(Cur, <<o, n>>, checks),
                [valid |-> TRUE, pre |-> mem, overflow_checks |-> checks])
        /\ UNCHANGED calls

AttrClear ==
    \E o \in AttrObjects, n \in AttrIds, checks \in BOOLEAN :
        /\ Live
        /\ Step("clear_attr", <<o, n>>, ClearAttr_execute(Cur, <<o, n>>, checks),
                [valid |-> TRUE, pre |-> mem, overflow_checks |-> checks])
        /\ UNCHANGED calls

NextAttr == AttrSet \/ AttrClear

SpecAttr == InitAttr /\ [][NextAttr]_vars

\* C15: for an object o and attribute numbers n # m of the version (0..31 in
\* V1-V3, 0..47 in V4+): attr_set(o, n) completes and attr_test(o, n) is true
\* after it, attr_clear(o, n) completes and attr_test(o, n) is false after it,
\* and in both cases attr_test(o, m) is what it was before.
C15_AttrSetClearTest ==
    last.op \in {"set_attr", "clear_attr"} =>
        LET o == last.args[1]
            n == last.args[2]
        IN  /\ last.res = "ok"
            /\ attr_test(Wide, mem, o, n) = (last.op = "set_attr")
            /\ \A m \in ValidAttrs \ {n} :
                  attr_test(Wide, mem, o, m) = attr_test(Wide, last.ctx.pre, o, m)

(***************************************************************************)
(* SpecProp: the property handlers on object 1 of a V3 and of a V5 story.  *)
(* The object's property table is at L.props; the default table holds the  *)
(* word 0x1100 + n for property n.                                         *)
(***************************************************************************)
\* name: the words of the short name; list: the properties, as <<id, data>>
PropLayouts ==
    << [name |-> <<>>,
        list |-> << <<20, <<18, 52>>>>, <<10, <<42>>>>, <<5, <<1, 2, 3>>>> >>],
       [name |-> <<148, 165>>,
        list |-> << <<12, <<7>>>>, <<4, <<0, 9>>>> >>] >>

PropVersions == {3, 5}
PropIds == {4, 5, 10, 12, 20}
PutVals == {4660, 255}

\* a property as the story file holds it: its size byte(s), then its data
EncodeProp(wide, id, data) ==
    IF ~wide THEN <<32 * (Len(data) - 1) + id>> \o data
    ELSE IF Len(data) = 1 THEN <<id>> \o data
    ELSE IF Len(data) = 2 THEN <<64 + id>> \o data
    ELSE <<128 + id, 128 + Len(data)>> \o data

PropTable(wide, layout) ==
    <<Len(layout.name) \div 2>> \o layout.name
        \o Flatten([i \in DOMAIN layout.list |->
                       EncodeProp(wide, layout.list[i][1], layout.list[i][2])])

PropStory(ver, layout) ==
    LET wide == ver > 3
        table == PropTable(wide, layout)
    IN  Image(Header(ver)
              \cup Word(L.objects + 2 * PROPMAX(wide) + PROPS(wide), L.props)
              \cup {<<L.props + i - 1, table[i]>> : i \in DOMAIN table}
              \cup UNION {Word(L.objects + 2 * (n - 1), 4352 + n) : n \in 1..PROPMAX(wide)}
              \cup {<<L.code + i, 16>> : i \in 0..MaxCode})

InitProp ==
    /\ \E ver \in PropVersions, k \in DOMAIN PropLayouts :
          /\ mem = PropStory(ver, PropLayouts[k])
          /\ stack = State_new(mem).stack
          /\ sp = State_new(mem).sp
          /\ frames = State_new(mem).frames
          /\ running = State_new(mem).running
          /\ version = State_new(mem).version
          /\ out = State_new(mem).out
    /\ last = Start
    /\ calls = <<>>

\* ctx: the memory before the handler; for get_prop also the put_prop that ran
\* right before it, if one did, and the memory before that
PropGet ==
    \E n \in PropIds, checks \in BOOLEAN :
        /\ Live /\ MayFetch
        /\ Step("get_prop", <<1, n>>, GetProp_execute(Cur, <<1, n>>, checks),
                [valid |-> TRUE, pre |-> mem,
                 put |-> IF last.op = "put_prop" THEN last.args ELSE <<>>,
                 pre_put |-> IF last.op = "put_prop" THEN last.ctx.pre ELSE mem])
        /\ UNCHANGED calls

PropPut ==
    \E n \in PropIds, v \in PutVals :
        /\ Live
        /\ Step("put_prop", <<1, n, v>>, PutProp_execute(Cur, <<1, n, v>>),
                [valid |-> TRUE, pre |-> mem])
        /\ UNCHANGED calls

PropGetAddr ==
    \E n \in PropIds :
        /\ Live /\ MayFetch
        /\ Step("get_prop_addr", <<1, n>>, GetPropAddr_execute(Cur, <<1, n>>),
                [valid |-> TRUE, pre |-> mem])
        /\ UNCHANGED calls

\* the address is 0 or one get_prop_addr gives
PropGetLen ==
    \E a \in {0} \cup {get_prop_addr(Wide, mem, 1, n).addr : n \in PropIds} :
        /\ Live /\ MayFetch
        /\ Step("get_prop_len", <<a>>, GetPropLen_execute(Cur, <<a>>),
                [valid |-> TRUE, pre |-> mem])
        /\ UNCHANGED calls

PropGetNext ==
    \E n \in {0} \cup PropIds, checks \in BOOLEAN :
        /\ Live /\ MayFetch
        /\ Step("get_next_prop", <<1, n>>, GetNextProp_execute(Cur, <<1, n>>, checks),
                [valid |-> TRUE, pre |-> mem])
        /\ UNCHANGED calls

NextProp == PropGet \/ PropPut \/ PropGetAddr \/ PropGetLen \/ PropGetNext

SpecProp == InitProp /\ [][NextProp]_vars

\* The property list as the story file lays it out, read from its first
\* property on: each entry with its number, the address of its first data
\* byte and its data length.
RECURSIVE PropEntries(_, _, _)
PropEntries(wide, m, a) ==
    LET s == MemAt(m, a)
        second == MemAt(m, a + 1)
        long == wide /\ s >= 128
        len == IF ~wide THEN (s \div 32) + 1
               ELSE IF ~long THEN 1 + Bit(s, 6)
               ELSE IF second % 64 = 0 THEN 64 ELSE second % 64
        data == IF long THEN a + 2 ELSE a + 1
    IN  IF s = 0 THEN <<>>
        ELSE <<[id |-> IF wide THEN s % 64 ELSE s % 32, addr |-> data, len |-> len]>>
                 \o PropEntries(wide, m, data + len)

PropList(m) == PropEntries(Wide, m, first_property_addr(Wide, m, 1))

Present(m, n) == \E i \in DOMAIN PropList(m) : PropList(m)[i].id = n

Entry(m, n) == PropList(m)[CHOOSE i \in DOMAIN PropList(m) : PropList(m)[i].id = n]

DefaultWord(m, n) ==
    MemAt(m, object_table(m) + 2 * (n - 1)) * 256 + MemAt(m, object_table(m) + 2 * (n - 1) + 1)

\* C16: get_prop(obj, n) returns the property's byte, zero-extended, when the
\* property is there with one data byte, its big-endian word when it is there
\* with two, and the word at object_table + 2 * (n - 1) when it is not there.
C16_GetProp ==
    last.op = "get_prop" =>
        LET m == last.ctx.pre
            n == last.args[2]
            e == Entry(m, n)
        IN  /\ ~Present(m, n) => last.res = "ok" /\ last.val = DefaultWord(m, n)
            /\ (Present(m, n) /\ e.len = 1) => last.res = "ok" /\ last.val = MemAt(m, e.addr)
            /\ (Present(m, n) /\ e.len = 2) =>
                  last.res = "ok" /\ last.val = MemAt(m, e.addr) * 256 + MemAt(m, e.addr + 1)

\* C17: for a property n that is there with one or two data bytes,
\* put_prop(obj, n, v) changes no byte outside the property's data bytes, and
\* a get_prop(obj, n) right after it returns v (v mod 256 for one data byte).
C17_PutThenGet ==
    /\ last.op = "put_prop" =>
          LET m == last.ctx.pre
              e == Entry(m, last.args[2])
          IN  (Present(m, last.args[2]) /\ e.len <= 2) =>
                 /\ last.res = "ok"
                 /\ \A a \in (DOMAIN mem) \cup (DOMAIN m) :
                       a \notin e.addr .. (e.addr + e.len - 1) => MemAt(mem, a) = MemAt(m, a)
    /\ (last.op = "get_prop" /\ last.ctx.put # <<>>) =>
          LET m == last.ctx.pre_put
              n == last.args[2]
              v == last.ctx.put[3]
              e == Entry(m, n)
          IN  (last.ctx.put[2] = n /\ Present(m, n) /\ e.len <= 2) =>
                 /\ last.res = "ok"
                 /\ last.val = IF e.len = 1 THEN v % 256 ELSE v

\* C18: get_prop on a property with more than two data bytes, and put_prop on
\* a property that is not there or has more than two, return an error and leave
\* the memory as it was.
C18_NotWordSized ==
    LET m == last.ctx.pre
        n == last.args[2]
    IN  /\ (last.op = "get_prop" /\ Present(m, n) /\ Entry(m, n).len > 2) =>
              last.res \notin {"ok", "hang", "panic"} /\ mem = m
        /\ (last.op = "put_prop" /\ (Present(m, n) => Entry(m, n).len > 2)) =>
              last.res \notin {"ok", "hang", "panic"} /\ mem = m

\* C19: get_prop_addr(obj, n) returns the address of the first data byte of
\* property n together with its data length, or the address 0 when the
\* property is not there; get_prop_len of a non-zero address it returned is
\* that data length, and get_prop_len(0) is 0.
C19_PropAddrLen ==
    /\ last.op = "get_prop_addr" =>
          LET m == last.ctx.pre
              n == last.args[2]
              e == Entry(m, n)
          IN  IF Present(m, n)
              THEN /\ last.val = e.addr
                   /\ get_prop_addr(Wide, m, 1, n).data_length = e.len
                   /\ get_prop_len(Wide, m, last.val) = e.len
              ELSE last.val = 0
    /\ (last.op = "get_prop_len" /\ last.args[1] = 0) => last.val = 0

\* C20: for a property list p1 > p2 > ... > pk, get_next_prop(obj, 0) is p1,
\* get_next_prop(obj, pi) is p(i+1), and get_next_prop(obj, pk) is 0, in the
\* V1-V3 and in the V4+ format.
C20_NextProp ==
    last.op = "get_next_prop" =>
        LET ps == PropList(last.ctx.pre)
            n == last.args[2]
            id(i) == IF i \in DOMAIN ps THEN ps[i].id ELSE 0
        IN  /\ n = 0 => last.res = "ok" /\ last.val = id(1)
            /\ \A i \in DOMAIN ps : n = ps[i].id => last.res = "ok" /\ last.val = id(i + 1)

(***************************************************************************)
(* SpecCall: CALL, a JZ as the first instruction of the routine called,    *)
(* and PRINT_PADDR, on V3 and V5 stories.  A story holds a routine and a   *)
(* string at each of the packed addresses of CallPacked and StrPacked, at  *)
(* the byte address its version gives them (packed * 2 in V3, packed * 4   *)
(* in V5).  The routine at packed address q declares nl locals with the    *)
(* defaults q + 1, q + 2, ... and its body starts with the branch bytes    *)
(* b1 b2.                                                                  *)
(***************************************************************************)
CallVersions == {3, 5}
CallLocals == {0, 1, 2}
CallPacked == {512, 33280}             \* 0x0200, 0x8200
StrPacked == {640, 33408}              \* 0x0280, 0x8280
CallArgs == {<<>>, <<7>>, <<7, 8>>, <<7, 8, 9>>}
CallBranchFirst == {0, 64, 128, 192, 193, 197}
CallBranchSecond == {0, 1}

\* the multiplier of packed addresses
PackFactor(ver) == IF ver <= 3 THEN 2 ELSE 4

CallStory(ver, nl, b1, b2) ==
    Image(Header(ver)
          \cup {<<L.code, 16>>}
          \cup UNION {{<<q * PackFactor(ver), nl>>}
                         \cup UNION {Word(q * PackFactor(ver) + 1 + 2 * (i - 1), q + i) :
                                        i \in 1..(IF ver <= 4 THEN nl ELSE 0)}
                         \cup {<<q * PackFactor(ver) + 1 + (IF ver <= 4 THEN 2 * nl ELSE 0), b1>>,
                               <<q * PackFactor(ver) + 2 + (IF ver <= 4 THEN 2 * nl ELSE 0), b2>>} :
                      q \in CallPacked}
          \cup UNION {{<<q * PackFactor(ver) + i - 1, Texts[1][i]>> : i \in DOMAIN Texts[1]} :
                      q \in StrPacked})

InitCall ==
    /\ \E ver \in CallVersions, nl \in CallLocals,
          b1 \in CallBranchFirst, b2 \in CallBranchSecond :
          /\ mem = CallStory(ver, nl, b1, b2)
          /\ stack = State_new(mem).stack
          /\ sp = State_new(mem).sp
          /\ frames = State_new(mem).frames
          /\ running = State_new(mem).running
          /\ version = State_new(mem).version
          /\ out = State_new(mem).out
    /\ last = Start
    /\ calls = <<>>

\* ctx: the state before the CALL; calls: the caller's sp, the PC after the
\* store byte and the store byte, as in SpecVM
CallRoutine ==
    \E q \in CallPacked, args \in CallArgs :
        /\ Live
        /\ Len(frames) = 1
        /\ frame(Cur).pc = L.code
        /\ Step("call", <<q>> \o args, Call_execute(Cur, <<q>> \o args),
                [valid |-> TRUE, pre |-> Cur])
        /\ calls' = Append(calls, [valid |-> TRUE, sp0 |-> sp,
                                   ret_pc |-> U32(frame(Cur).pc + 1),
                                   store |-> read_u8(mem, U16(frame(Cur).pc))])

\* the first instruction of the routine: a JZ, whose branch bytes are at the PC
CallJz ==
    \E a \in JzOperands :
        /\ Live
        /\ last.op = "call"
        /\ Len(frames) = 2
        /\ Step("jz", <<a>>, Jz_execute(Cur, <<a>>),
                [valid |-> TRUE, at |-> U16(frame(Cur).pc), call |-> calls[Len(calls)]])
        /\ UNCHANGED calls

CallPrintPAddr ==
    \E q \in StrPacked, checks \in BOOLEAN :
        /\ Live
        /\ Len(frames) = 1
        /\ last.op # "print_paddr"
        /\ Step("print_paddr", <<q>>, PrintPAddr_execute(Cur, <<q>>, checks),
                [valid |-> TRUE, pre |-> Cur])
        /\ UNCHANGED calls

NextCall == CallRoutine \/ CallJz \/ CallPrintPAddr

SpecCall == InitCall /\ [][NextCall]_vars

\* the routine the CALL that ran last names: its byte address, the number of
\* locals its header declares, the i-th default word of the header, and the
\* number of arguments given
CallTarget == last.args[1] * PackFactor(version)
CallN == MemAt(last.ctx.pre.mem, CallTarget)
CallDefault(i) ==
    IF version <= 4
    THEN MemAt(last.ctx.pre.mem, CallTarget + 1 + 2 * (i - 1)) * 256
             + MemAt(last.ctx.pre.mem, CallTarget + 2 + 2 * (i - 1))
    ELSE 0
CallK == Len(last.args) - 1
CallBody == CallTarget + 1 + (IF version <= 4 THEN 2 * CallN ELSE 0)

\* C21: after a CALL of a routine that declares n locals, made with k
\* arguments, local i of the new frame is argument i for i <= min(k, n) and for
\* the other i <= n the i-th default word of the header (V1-V4) or 0 (V5+);
\* nothing else is written to the stack (arguments beyond n are dropped), and
\* the PC is at the first byte after the count byte and the default words.
C21_CallLocals ==
    last.op = "call" =>
        /\ last.res = "ok"
        /\ Len(frames) = 2
        /\ \A i \in 1..CallN :
              read_local(Cur, i) = IF i <= CallK THEN last.args[i + 1] ELSE CallDefault(i)
        /\ \A x \in (DOMAIN stack) \cup (DOMAIN last.ctx.pre.stack) :
              x \notin {frame(Cur).bp - i : i \in 1..CallN} =>
                  StackAt(stack, x) = StackAt(last.ctx.pre.stack, x)
        /\ frame(Cur).pc = CallBody

\* C22: a branch taken with the offset 0 (1) returns false (true) from the
\* routine: the frame is popped, the PC and sp are the caller's, and 0 (1) is
\* in the variable the CALL's store byte names.
C22_BranchReturns ==
    (last.op = "jz" /\ last.ctx.valid /\ BrTaken /\ BrOffset \in {0, 1}) =>
        /\ last.res = "ok"
        /\ Len(frames) = 1
        /\ frame(Cur).pc = last.ctx.call.ret_pc
        /\ sp = last.ctx.call.sp0
        /\ VarHolds(last.ctx.call.store, BrOffset)

\* C29: CALL and PRINT_PADDR take the packed address p to the byte address
\* p * 2 (V1-V3) or p * 4 (V4, V5), not cut to 16 bits: the callee starts
\* after the header found at that address, with that header's defaults in the
\* locals no argument fills, and PRINT_PADDR prints the string that starts at
\* that address, which is what PRINT_ADDR prints for it.
C29_PackedAddress ==
    /\ last.op = "call" =>
          /\ last.res = "ok"
          /\ frame(Cur).pc = CallBody
          /\ \A i \in 1..CallN : i > CallK => read_local(Cur, i) = CallDefault(i)
    /\ last.op = "print_paddr" =>
          /\ last.res = "ok"
          /\ out = last.ctx.pre.out
                     \o get_string(mem, Zscii_new, last.args[1] * PackFactor(version), {}).buf

\* the stack indices that hold the locals of the k-th active frame
LocalIdx(k) == {frames[k].bp - i : i \in 1..15}

\* the stack indices that hold the values the k-th active frame has pushed:
\* Stack::push writes at sp + 1, from the sp the frame started with (0 for the
\* main frame, its bp for a called frame) up to the sp it has now or had when
\* it made its call
EvalIdx(k) ==
    LET base == IF k = 1 THEN 0 ELSE frames[k].bp
        top == IF k = Len(frames) THEN sp ELSE frames[k + 1].bp - FRAME_LOCALS
    IN  (base + 1) .. top

\* C30: the stack words of the locals and of the pushed values of the active
\* frames are pairwise disjoint, so a step that pushes a value or calls a
\* routine (which writes the new frame's locals) leaves every local and every
\* pushed value of the frames that were active before it as they were.
C30_FramesDisjoint ==
    [][(last'.op \in {"push", "call"} /\ last'.res = "ok") =>
          \A k \in 1..Len(frames) :
              \A x \in LocalIdx(k) \cup EvalIdx(k) :
                  StackAt(stack', x) = StackAt(stack, x)]_vars

(***************************************************************************)
(* SpecArith: the arithmetic handlers, run on a story whose store bytes    *)
(* name the stack, a local or a global.                                    *)
(***************************************************************************)
ArithVals == {0, 1, 2, 10, 32767, 32768, 65535}

InitArith ==
    /\ \E k \in 1..Len(StoreBytes) :
          /\ mem = VMStory(3, StoreBytes[k], 0)
          /\ stack = State_new(mem).stack
          /\ sp = State_new(mem).sp
          /\ frames = State_new(mem).frames
          /\ running = State_new(mem).running
          /\ version = State_new(mem).version
          /\ out = State_new(mem).out
    /\ last = Start
    /\ calls = <<>>

ArithStep(op, a, b, r) ==
    /\ Live /\ MayFetch
    /\ Step(op, <<a, b>>, r, [valid |-> TRUE, pre |-> Cur])
    /\ UNCHANGED calls

ArithAdd == \E a \in ArithVals, b \in ArithVals : ArithStep("add", a, b, Add_execute(Cur, <<a, b>>))
ArithSub == \E a \in ArithVals, b \in ArithVals : ArithStep("sub", a, b, Sub_execute(Cur, <<a, b>>))
ArithMul == \E a \in ArithVals, b \in ArithVals : ArithStep("mul", a, b, Mul_execute(Cur, <<a, b>>))
ArithDiv == \E a \in ArithVals, b \in ArithVals : ArithStep("div", a, b, Div_execute(Cur, <<a, b>>))
ArithMod == \E a \in ArithVals, b \in ArithVals : ArithStep("mod", a, b, Mod_execute(Cur, <<a, b>>))

NextArith == ArithAdd \/ ArithSub \/ ArithMul \/ ArithDiv \/ ArithMod

SpecArith == InitArith /\ [][NextArith]_vars

\* the sum, difference or product of the two operand words modulo 2^16, the
\* product taken from the low and the high byte of the second operand
ArithExpected ==
    LET a == last.args[1]
        b == last.args[2]
    IN  CASE last.op = "add" -> (a + b) % 65536
          [] last.op = "sub" -> (a + 65536 - b) % 65536
          [] last.op = "mul" -> (a * Lo(b) + ((a * Hi(b)) % 256) * 256) % 65536

\* the store byte the instruction that ran last read
ArithStoreByte == read_u8(last.ctx.pre.mem, U16(frame(last.ctx.pre).pc))

\* the variable id holds the word v that the instruction that ran last stored:
\* on top of the stack, one word above where it was, for 0; in the frame's
\* local for 1..15; in the word of the global table otherwise
StoredIn(id, v) ==
    IF id = 0 THEN sp = last.ctx.pre.sp + 1 /\ StackAt(stack, sp) = v
    ELSE IF id <= 15 THEN read_local(Cur, id) = v
    ELSE read_u16(mem, read_u16(mem, 12) + 2 * (id - 16)) = v

\* C23: add, sub and mul leave the two's-complement result modulo 2^16 in
\* the variable the store byte names (on top of the stack for 0) and the PC
\* one byte further.
C23_ArithStores ==
    last.op \in {"add", "sub", "mul"} =>
        /\ last.res = "ok"
        /\ frame(Cur).pc = frame(last.ctx.pre).pc + 1
        /\ StoredIn(ArithStoreByte, ArithExpected)

\* C24: div and mod with a second operand 0 return the error of a division
\* by zero and leave the memory, the stack, sp and the frames (the PC
\* included) as they were.
C24_DivByZero ==
    (last.op \in {"div", "mod"} /\ last.args[2] = 0) =>
        /\ last.res = "Division by zero"
        /\ Cur = last.ctx.pre

C24_Witness ==
    /\ last.op = "div" /\ last.args = <<10, 0>>
    /\ last.res = "Division by zero"

(***************************************************************************)
(* SpecFamily: get_child and get_sibling on a story where object 1 has the *)
(* child 2 and object 2 the sibling 3, followed by a store byte and branch *)
(* bytes.                                                                  *)
(***************************************************************************)
FamilyVersions == {3, 5}
FamilyObjects == {1, 2, 3}
FamilyBranchFirst == {202, 74, 128, 192}    \* 0xCA, 0x4A, 0x80, 0xC0

\* the address of the entry of object obj: after the 31 (V1-V3) or 63 default
\* words, the entries are 9 or 14 bytes long
FamilyEntry(ver, obj) ==
    IF ver <= 3 THEN L.objects + 62 + 9 * (obj - 1) ELSE L.objects + 126 + 14 * (obj - 1)

FamilyStory(ver, sv, b1) ==
    Image(Header(ver)
          \cup {<<L.code, sv>>, <<L.code + 1, b1>>, <<L.code + 2, 10>>}
          \cup (IF ver <= 3
                THEN {<<FamilyEntry(ver, 1) + 6, 2>>, <<FamilyEntry(ver, 2) + 4, 1>>,
                      <<FamilyEntry(ver, 2) + 5, 3>>, <<FamilyEntry(ver, 3) + 4, 1>>}
                ELSE Word(FamilyEntry(ver, 1) + 10, 2) \cup Word(FamilyEntry(ver, 2) + 6, 1)
                     \cup Word(FamilyEntry(ver, 2) + 8, 3) \cup Word(FamilyEntry(ver, 3) + 6, 1)))

InitFamily ==
    /\ \E ver \in FamilyVersions, k \in 1..Len(StoreBytes), b1 \in FamilyBranchFirst :
          /\ mem = FamilyStory(ver, StoreBytes[k], b1)
          /\ stack = State_new(mem).stack
          /\ sp = State_new(mem).sp
          /\ frames = State_new(mem).frames
          /\ running = State_new(mem).running
          /\ version = State_new(mem).version
          /\ out = State_new(mem).out
    /\ last = Start
    /\ calls = <<>>

FamilyGetChild ==
    \E obj \in FamilyObjects :
        /\ Live /\ frame(Cur).pc = L.code
        /\ Step("get_child", <<obj>>, GetChild_execute(Cur, <<obj>>), [valid |-> TRUE, pre |-> Cur])
        /\ UNCHANGED calls

FamilyGetSibling ==
    \E obj \in FamilyObjects :
        /\ Live /\ frame(Cur).pc = L.code
        /\ Step("get_sibling", <<obj>>, GetSibling_execute(Cur, <<obj>>), [valid |-> TRUE, pre |-> Cur])
        /\ UNCHANGED calls

NextFamily == FamilyGetChild \/ FamilyGetSibling

SpecFamily == InitFamily /\ [][NextFamily]_vars

\* the child or sibling field of the object the instruction that ran last was
\* given, as the story held it
FamilyId ==
    LET m == last.ctx.pre.mem
        at == FamilyEntry(version, last.args[1])
    IN  IF version <= 3
        THEN MemAt(m, at + (IF last.op = "get_child" THEN 6 ELSE 5))
        ELSE MemAt(m, at + (IF last.op = "get_child" THEN 10 ELSE 8)) * 256
                 + MemAt(m, at + (IF last.op = "get_child" THEN 11 ELSE 9))

\* C25: get_child and get_sibling take the byte at the PC as the store byte and
\* the bytes after it as the branch: the object id is in the variable the
\* store byte names whether or not the branch is taken, and the branch, read
\* from the next byte(s), is taken iff the id is not 0.
C25_StoreThenBranch ==
    last.op \in {"get_child", "get_sibling"} =>
        LET pc0 == frame(last.ctx.pre).pc
            m == last.ctx.pre.mem
            first == MemAt(m, pc0 + 1)
            short == Bit(first, 6) = 1
            after == pc0 + (IF short THEN 2 ELSE 3)
            field == (first % 64) * 256 + MemAt(m, pc0 + 2)
            offset == IF short THEN first % 64
                      ELSE IF field >= 8192 THEN field - 16384 ELSE field
            taken == (FamilyId # 0) <=> (Bit(first, 7) = 1)
        IN  /\ last.res = "ok"
            /\ StoredIn(MemAt(m, pc0), FamilyId)
            /\ (~taken \/ offset \notin {0, 1}) =>
                  frame(Cur).pc = IF taken THEN after + offset - 2 ELSE after

(***************************************************************************)
(* SpecAbbrev: print_addr on stories whose strings use abbreviations.  The *)
(* string at L.text starts with the byte t, and abbreviation 0 is the      *)
(* string at the word address L.text \div 2, where the byte r is: 4 is the *)
(* first byte of a word that starts with abbreviation 0, 5 of one that     *)
(* starts with abbreviation 8, and 53 of plain text.  Abbreviation 8 is    *)
(* plain text.                                                             *)
(***************************************************************************)
AbbrevVersions == {3, 5}
AbbrevFirst == {4, 5, 53}
AbbrevInner == L.text \div 2
AbbrevPlain == AbbrevInner + 8
AbbrevAddrs == {L.text, AbbrevInner, AbbrevPlain}

AbbrevStory(ver, t, r) ==
    Image(Header(ver)
          \cup {<<L.text, t>>, <<L.text + 1, 5>>, <<L.text + 2, 148>>, <<L.text + 3, 165>>}
          \cup {<<AbbrevInner, r>>, <<AbbrevInner + 1, 5>>,
                <<AbbrevInner + 2, 148>>, <<AbbrevInner + 3, 165>>}
          \cup {<<AbbrevPlain + i - 1, Texts[1][i]>> : i \in DOMAIN Texts[1]}
          \cup Word(L.abbrev, AbbrevInner)
          \cup Word(L.abbrev + 16, AbbrevPlain))

InitAbbrev ==
    /\ \E ver \in AbbrevVersions, t \in AbbrevFirst, r \in AbbrevFirst :
          /\ mem = AbbrevStory(ver, t, r)
          /\ stack = State_new(mem).stack
          /\ sp = State_new(mem).sp
          /\ frames = State_new(mem).frames
          /\ running = State_new(mem).running
          /\ version = State_new(mem).version
          /\ out = State_new(mem).out
    /\ last = Start
    /\ calls = <<>>

AbbrevPrintAddr ==
    \E a \in AbbrevAddrs :
        /\ Live /\ Len(out) < MaxOut
        /\ Step("print_addr", <<a>>, PrintAddr_execute(Cur, <<a>>), [valid |-> TRUE, pre |-> Cur])
        /\ UNCHANGED calls

NextAbbrev == AbbrevPrintAddr

SpecAbbrev == InitAbbrev /\ [][NextAbbrev]_vars

\* C26: decoding a string ends, also when the string of an abbreviation it
\* uses contains that abbreviation again: print_addr returns.
C26_AbbrevTerminates ==
    last.op = "print_addr" => last.res # "hang"

(***************************************************************************)
(* SpecWrite: storeb, storew, a call and restart on a story whose static   *)
(* memory starts at StaticBase (header word 0x0E), with Flags 2 at 0x10.   *)
(***************************************************************************)
StaticBase == 8 * 256
WriteArrays == {L.array, StaticBase}
WriteIndexes == {0, 1}
WriteBytes == {171}                     \* 0xAB
WriteWords == {4660}                    \* 0x1234
FLAGS2 == {16, 17}

WriteStory ==
    Image(Header(3) \cup Word(14, StaticBase) \cup Word(16, 1)
          \cup {<<L.code, 16>>, <<L.routine, 0>>}
          \cup Word(L.array, 4369) \cup Word(StaticBase, 8738))

InitWrite ==
    /\ mem = WriteStory
    /\ stack = State_new(mem).stack
    /\ sp = State_new(mem).sp
    /\ frames = State_new(mem).frames
    /\ running = State_new(mem).running
    /\ version = State_new(mem).version
    /\ out = State_new(mem).out
    /\ last = Start
    /\ calls = <<>>

WriteStep(op, args, r) ==
    /\ Live /\ last.op # "restart"
    /\ Step(op, args, r, [valid |-> TRUE, pre |-> Cur])
    /\ UNCHANGED calls

WriteStoreB ==
    \E a \in WriteArrays \cup {16}, i \in WriteIndexes, v \in WriteBytes :
        WriteStep("storeb", <<a, i, v>>, StoreB_execute(Cur, <<a, i, v>>))

WriteStoreW ==
    \E a \in WriteArrays, v \in WriteWords :
        WriteStep("storew", <<a, 0, v>>, StoreW_execute(Cur, <<a, 0, v>>))

WriteCall ==
    /\ Len(frames) = 1 /\ frame(Cur).pc = L.code
    /\ WriteStep("call", <<L.packed>>, Call_execute(Cur, <<L.packed>>))

WriteRestart ==
    /\ WriteStep("restart", <<>>, Restart_execute(Cur, <<>>))

NextWrite == WriteStoreB \/ WriteStoreW \/ WriteCall \/ WriteRestart

SpecWrite == InitWrite /\ [][NextWrite]_vars

\* the address storeb or storew was told to write at, and the bytes it covers
WriteTarget == last.args[1] + last.args[2] * (IF last.op = "storew" THEN 2 ELSE 1)
WriteCovers == IF last.op = "storew" THEN {WriteTarget, WriteTarget + 1} ELSE {WriteTarget}

\* C27: a storeb or storew that covers a byte at or above the static-memory
\* boundary (header word 0x0E) fails with an error and leaves the memory as
\* it was.
C27_StaticProtected ==
    (last.op \in {"storeb", "storew"}
        /\ \E a \in WriteCovers : a >= static_memory(last.ctx.pre.mem)) =>
            /\ last.res # "ok"
            /\ mem = last.ctx.pre.mem

\* C28: after restart every byte of dynamic memory is the byte of the story
\* as it was loaded, except Flags 2 (header bytes 0x10, 0x11), which keeps the
\* value it had, and the machine is in a fresh main frame at the header's
\* initial PC.
C28_RestartRestores ==
    last.op = "restart" =>
        /\ last.res = "ok"
        /\ \A a \in (DOMAIN mem) \cup (DOMAIN WriteStory) :
              (a < StaticBase /\ a \notin FLAGS2) => MemAt(mem, a) = MemAt(WriteStory, a)
        /\ \A a \in FLAGS2 : MemAt(mem, a) = MemAt(last.ctx.pre.mem, a)
        /\ frames = <<StackFrame_main(WriteStory)>>

(***************************************************************************)
(* SpecOperands: one instruction of a registered opcode executed at the    *)
(* initial PC, on the stories of SpecDecode: the variable forms with every *)
(* types byte of TypesBytes, the other forms with an operand byte.         *)
(***************************************************************************)
RegisteredOps == {1, 33, 65, 97, 193, 128, 144, 160, 224, 225, 226, 232}

InitOperands ==
    /\ \E op \in RegisteredOps :
       \E first \in (IF op >= 192 THEN TypesBytes ELSE OperandBytes) :
          /\ mem = DecodeStory(op, first)
          /\ stack = State_new(mem).stack
          /\ sp = State_new(mem).sp
          /\ frames = State_new(mem).frames
          /\ running = State_new(mem).running
          /\ version = State_new(mem).version
          /\ out = State_new(mem).out
    /\ last = Start
    /\ calls = <<>>

OperandsExecute ==
    LET n == next_u8(Cur)
        d == decode_operands(n.st, n.val)
    IN  /\ Live
        /\ frame(Cur).pc = L.code
        /\ Step("execute_instruction", d.val, execute_instruction(Cur),
                [valid |-> TRUE, pre |-> Cur, decoded_pc |-> frame(d.st).pc, decode_res |-> d.res])
        /\ UNCHANGED calls

NextOperands == OperandsExecute

SpecOperands == InitOperands /\ [][NextOperands]_vars

\* C31: execute_instruction on a registered opcode, whatever operands its
\* encoding supplies, returns Ok or an Error: it does not panic on a missing
\* operand.
C31_NoMissingOperand ==
    last.op = "execute_instruction" => last.res # "panic"

\* C32: a return that fails because the frame is the main frame leaves sp,
\* every stack word, and the frame's PC and bp as they were before it.
C32_FailedReturnKeepsState ==
    [][(last'.op = "ret" /\ last'.res = "Attempted to return from main routine") =>
          /\ sp' = sp
          /\ \A x \in (DOMAIN stack) \cup (DOMAIN stack') : StackAt(stack', x) = StackAt(stack, x)
          /\ frames'[Len(frames')].pc = frames[Len(frames)].pc
          /\ frames'[Len(frames')].bp = frames[Len(frames)].bp]_vars

\* C33: in every state that insert_obj and remove_obj on non-zero objects
\* reach from the tree where no object has a parent, insert_obj and remove_obj
\* return.
C33_TreeOpsTerminate ==
    last.op \in {"insert_obj", "remove_obj"} => last.res # "hang"

\* C34: on the V1-V3 stories, whose property tables hold their properties in
\* descending order before a zero byte, get_prop and put_prop return for
\* every property number: present with 1 or 2 bytes, present with more, absent.
C34_PropOpsTerminate ==
    (last.op \in {"get_prop", "put_prop"} /\ version <= 3) => last.res # "hang"

(***************************************************************************)
(* SpecDeep: a routine without locals called again and again from the      *)
(* initial state, each call taking 16 stack words, and values pushed once  *)
(* sp is within DeepWindow words of the end of the stack array.            *)
(***************************************************************************)
DeepWindow == 24

InitDeep ==
    /\ mem = VMStory(3, 0, 0)
    /\ stack = State_new(mem).stack
    /\ sp = State_new(mem).sp
    /\ frames = State_new(mem).frames
    /\ running = State_new(mem).running
    /\ version = State_new(mem).version
    /\ out = State_new(mem).out
    /\ last = Start
    /\ calls = <<>>

DeepCall ==
    /\ Live /\ last.op # "push"
    /\ sp + FRAME_LOCALS <= STACK_LEN
    /\ Step("call", <<L.packed>>, Call_execute(Cur, <<L.packed>>), NoCtx)
    /\ UNCHANGED calls

DeepPush ==
    \E v \in PushVals :
        /\ Live
        /\ sp >= STACK_LEN - DeepWindow
        /\ Step("push", <<v>>, Push_execute(Cur, <<v>>),
                [valid |-> TRUE, sp0 |-> sp, ret_pc |-> 0, store |-> v])
        /\ UNCHANGED calls

NextDeep == DeepCall \/ DeepPush

SpecDeep == InitDeep /\ [][NextDeep]_vars

\* C35: a push that succeeds has written its word at an index in 0..4095, and
\* a push on the full stack (the last word, 4095, in use) returns the error
\* Stack Overflow and leaves sp as it was.
C35_PushInRange ==
    last.op = "push" =>
        /\ last.res = "ok" =>
              /\ sp \in 0..(STACK_LEN - 1)
              /\ StackAt(stack, sp) = last.args[1]
        /\ last.ctx.sp0 >= STACK_LEN - 1 =>
              /\ last.res = "Stack Overflow"
              /\ sp = last.ctx.sp0

(***************************************************************************)
(* SpecWide: the link writers and insert_obj on a V5 story, whose object   *)
(* ids are words, for objects below and above 255; at most two operations. *)
(***************************************************************************)
WideObjects == {1, 2, 300}
WideIds == {0, 1, 255, 256, 300}
WideLinks == {"parent", "sibling", "child"}

WideStory == Image(Header(5))

InitWide ==
    /\ mem = WideStory
    /\ stack = State_new(mem).stack
    /\ sp = State_new(mem).sp
    /\ frames = State_new(mem).frames
    /\ running = State_new(mem).running
    /\ version = State_new(mem).version
    /\ out = State_new(mem).out
    /\ last = Start
    /\ calls = <<>>

WideStep(op, args, r) ==
    /\ Live /\ Len(calls) < 2
    /\ Step(op, args, r, NoCtx)
    /\ calls' = Append(calls, NoCtx)

\* Object::<u16>::write_parent, write_sibling, write_child
WideWrite ==
    \E link \in WideLinks, o \in WideObjects, id \in WideIds :
        WideStep("write_" \o link, <<o, id>>,
                 Ok([Cur EXCEPT !.mem = CASE link = "parent" -> write_parent(TRUE, @, o, id)
                                          [] link = "sibling" -> write_sibling(TRUE, @, o, id)
                                          [] link = "child" -> write_child(TRUE, @, o, id)], 0))

WideInsert ==
    \E o \in WideObjects, d \in WideObjects :
        /\ o # d
        /\ WideStep("insert_obj", <<o, d>>, InsertObj_execute(Cur, <<o, d>>))

NextWide == WideWrite \/ WideInsert

SpecWide == InitWide /\ [][NextWide]_vars

\* C36: with word-sized object ids a link reads back as the id that was
\* written to it, and after insert_obj o, d the parent of o is d and the child
\* of d is o, for ids above 255 as for those below.
C36_WideLinkRoundTrip ==
    /\ last.op = "write_parent" => parent(TRUE, mem, last.args[1]) = last.args[2]
    /\ last.op = "write_sibling" => sibling(TRUE, mem, last.args[1]) = last.args[2]
    /\ last.op = "write_child" => child(TRUE, mem, last.args[1]) = last.args[2]
    /\ (last.op = "insert_obj" /\ last.res = "ok") =>
          /\ parent(TRUE, mem, last.args[1]) = last.args[2]
          /\ child(TRUE, mem, last.args[2]) = last.args[1]

\* The object of a remove_obj about to run has a parent, and the sibling
\* chain from that parent's child does not hold it.
Orphaned(m, o) ==
    /\ parent(Wide, m, o) # 0
    /\ Occurs(m, o, child(Wide, m, parent(Wide, m, o))) = 0

\* C37: a remove_obj of an object that has a parent and is absent from the
\* sibling chain of that parent's child is reported as an error; it does not
\* return normally with the object's parent and sibling links cleared.
C37_OrphanRemoveReported ==
    [][(last'.op = "remove_obj" /\ Orphaned(mem, last'.args[1]))
        => last'.res \notin {"ok", "hang"}]_vars

(***************************************************************************)
(* SpecZchar: one decoder fed Z-chars one at a time, in V1, V2, V3 and V5. *)
(* The decoder is calls[1]; last.val counts the Z-chars it was given.      *)
(***************************************************************************)
MaxZchars == 4
ZcharVersions == {1, 2, 3, 5}
ZChars == {1, 2, 3, 4, 5, 6, 7, 31}

\* every abbreviation a pair of ZChars selects holds the word AbbrevInner;
\* three different one-word strings lie at that address, at twice and at four
\* times it
ZcharStory(ver) ==
    Image(Header(ver)
          \cup UNION {Word(L.abbrev + 2 * (32 * t + x), AbbrevInner) : t \in 0..2, x \in ZChars}
          \cup {<<AbbrevInner, 53>>, <<2 * AbbrevInner, 42>>, <<4 * AbbrevInner, 46>>})

InitZchar ==
    /\ \E ver \in ZcharVersions :
          /\ mem = ZcharStory(ver)
          /\ stack = State_new(mem).stack
          /\ sp = State_new(mem).sp
          /\ frames = State_new(mem).frames
          /\ running = State_new(mem).running
          /\ version = State_new(mem).version
          /\ out = State_new(mem).out
    /\ last = Start
    /\ calls = <<Zscii_new>>

\* one call of Zscii::decode_zchar
ZcharDecode ==
    \E ch \in ZChars :
        LET z == decode_zchar(mem, calls[1], ch, {})
        IN  /\ last.res = "ok" /\ last.val < MaxZchars
            /\ calls' = <<z>>
            /\ last' = [op |-> "decode_zchar", args |-> <<ch>>,
                        res |-> IF z.hang THEN "hang" ELSE "ok",
                        val |-> last.val + 1, ctx |-> NoCtx]
            /\ UNCHANGED <<mem, stack, sp, frames, running, version, out>>

NextZchar == ZcharDecode

SpecZchar == InitZchar /\ [][NextZchar]_vars

\* the decoder is in one of the three alphabets
InAlphabet(z) == z.mode \in {A0, A1, A2}

\* the step gave the decoder a Z-char of 6..31 in an alphabet and the decoder
\* emitted a character for it
EmittedChar ==
    /\ last'.op = "decode_zchar" /\ last'.res = "ok"
    /\ last'.args[1] \in 6..31
    /\ InAlphabet(calls[1])
    /\ Len(calls'[1].buf) = Len(calls[1].buf) + 1

\* C39: right after a character is emitted for a Z-char of 6..31 the current
\* alphabet is A0, unless a shift lock is in force (V1 and V2 only), and then
\* it is the locked alphabet; in V3 and later no lock is ever in force, so a
\* shift 4 or 5 reaches the one following Z-char only.
C39_AlphabetAfterChar ==
    [][EmittedChar =>
          /\ calls'[1].mode = (IF calls[1].shift_mode # <<>>
                                 THEN calls[1].shift_mode[1] ELSE A0)
          /\ (calls[1].shift_mode # <<>> => zmachine_version(mem) < 3)]_vars

\* the word of the abbreviations table that the pair c, x selects
AbbrevWord(m, c, x) == read_u16(m, U16(abbreviations_table(m) + 2 * (32 * (c - 1) + x)))

\* C38: in V3 and later, the Z-char x that follows a Z-char c of 1, 2 or 3
\* appends to the output the decoding of the Z-string at the byte address that
\* is the packing factor times the word at abbreviations_table +
\* 2 * (32 * (c - 1) + x), and leaves the decoder in alphabet A0.
C38_AbbrevExpands ==
    [][(last'.op = "decode_zchar" /\ zmachine_version(mem) >= 3
            /\ calls[1].mode.k = "ABBREV")
        => LET c == calls[1].mode.n + 1
               x == last'.args[1]
               str == get_string(mem, Zscii_new,
                                 PackFactor(zmachine_version(mem)) * AbbrevWord(mem, c, x), {})
           IN  /\ last'.res = "ok"
               /\ calls'[1].buf = calls[1].buf \o str.buf
               /\ calls'[1].mode = A0]_vars


====
